---- MODULE Spec2Model ----
(***************************************************************************)
(* A model of the rag-chatbot backend (src/backend/rag): the token        *)
(* chunker, the query classifier, the pgvector retriever, the answer      *)
(* generator and the two chat views that compose them.                    *)
(*                                                                         *)
(* Numbers that are floats in the code (similarities, cosine distances)   *)
(* are integers in hundredths here: 0.25 is 25.                           *)
(***************************************************************************)
EXTENDS Integers, Sequences, FiniteSets, TLC

(***************************************************************************)
(* Bounds of the model.                                                    *)
(***************************************************************************)
MaxTextLen == 5
MaxChunkSize == 3
MaxOverlap == 4
MaxRows == 4
MaxTopK == 3
MaxStreamChunks == 2

\* The window loop of a run that never exits is cut after this many chunks;
\* a run that exits appends at most one chunk per token.
MaxChunks == MaxTextLen + 2

NULL == "None"

Min(a, b) == IF a <= b THEN a ELSE b

(***************************************************************************)
(* State of one TextChunker.chunk_text call.                              *)
(***************************************************************************)
VARIABLES
    text,           \* argument: the text, a sequence of characters
    chunk_size,     \* argument
    chunk_overlap,  \* argument
    tokens,         \* local: encoder.encode(text)
    start,          \* local: the window's first token index
    chunks,         \* local, then the returned list of chunk texts
    chunk_windows,  \* the chunk_tokens slice each chunk was decoded from
    cpc             \* position in chunk_text: "call", "loop", "done", "off"

chunkVars == <<text, chunk_size, chunk_overlap, tokens, start, chunks,
               chunk_windows, cpc>>

(***************************************************************************)
(* The document_chunks table and the state of one Retriever.retrieve call. *)
(***************************************************************************)
VARIABLES
    store,          \* the DocumentChunk rows
    r_query,        \* argument: query
    r_user,         \* argument: user_id
    r_top_k,        \* argument: top_k
    r_embedding,    \* local: query_embedding
    rows,           \* local: what _execute_vector_search returned
    r_chunks,       \* the returned list of RetrievedChunk
    rpc             \* "idle", "embed", "search", "returned", "raised"

retrVars == <<store, r_query, r_user, r_top_k, r_embedding, rows, r_chunks,
              rpc>>

(***************************************************************************)
(* State of one QueryClassifier.classify call.                             *)
(***************************************************************************)
VARIABLES
    q_query,        \* argument: query
    q_response,     \* what the chat-completions call did
    q_result,       \* the returned QueryType, or the exception raised
    qpc             \* "idle", "call", "returned", "raised", "done"

classVars == <<q_query, q_response, q_result, qpc>>

(***************************************************************************)
(* State of one Generator.generate or Generator.stream_generate call.      *)
(***************************************************************************)
VARIABLES
    g_question,     \* argument: question
    g_chunks,       \* argument: chunks (None or a list)
    g_use_context,  \* local: use_context
    g_system_prompt, \* local: system_prompt
    g_user_message, \* local: the user message sent to the model
    g_upstream,     \* what the upstream stream has delivered so far
    g_handle,       \* the upstream stream handle: "none", "open", "closed"
    g_events,       \* the events stream_generate has yielded
    g_result,       \* the GeneratedAnswer generate returned
    gpc             \* "idle", "call", "open", "streaming", "yielded_token",
                    \* "yielded_done", "returned", "raised"

genVars == <<g_question, g_chunks, g_use_context, g_system_prompt,
             g_user_message, g_upstream, g_handle, g_events, g_result,
             gpc>>

(***************************************************************************)
(* The chat tables and the state of one ChatView / ChatStreamView request. *)
(***************************************************************************)
VARIABLES
    sessions,       \* the ChatSession rows
    messages,       \* the ChatMessage rows, in creation order
    v_mode,         \* "batch" (ChatView) or "stream" (ChatStreamView)
    v_user,         \* request.user
    v_message,      \* request body: message
    v_session_id,   \* request body: session_id, or None
    v_session,      \* local: the session's id
    v_query_type,   \* local: query_type
    v_chunks,       \* local: chunks (None or a list)
    full_response,  \* local of event_stream
    v_used_context, \* local of event_stream
    v_sources,      \* local of event_stream
    response,       \* the HTTP response, once there is one
    sse,            \* the events sent on the response stream
    trace,          \* the pipeline calls made and returned, in order
    vpc             \* "idle", "start", "classify", "retrieve", "generate",
                    \* "persist", "done"

viewVars == <<sessions, messages, v_mode, v_user, v_message, v_session_id,
              v_session, v_query_type, v_chunks, full_response,
              v_used_context, v_sources, response, sse, trace, vpc>>

(***************************************************************************)
(* The OCR settings and the state of one ImageProcessor.process_image     *)
(* call.                                                                   *)
(***************************************************************************)
VARIABLES
    settings,           \* the three OCR_*_THRESHOLD settings
    ocr_result,         \* local: the OCRResult, once OCR has run
    vision_calls,       \* the urls VisionService.describe_image was called with
    vision_description, \* local: vision_description
    final_text,         \* local: final_text, then the returned text
    ipc                 \* "idle", "ocr", "decide", "done", "raised"

imageVars == <<settings, ocr_result, vision_calls, vision_description,
               final_text, ipc>>

(***************************************************************************)
(* The assets table, the files held by Cloudinary, and the state of one   *)
(* DocumentUploadView request and of one AssetDeleteView request.          *)
(***************************************************************************)
VARIABLES
    assets,         \* the Asset rows
    cloud,          \* the public ids of the files Cloudinary holds
    u_user,         \* upload: request.user
    u_file,         \* upload: the request's file, or no file
    u_public_id,    \* upload local: cloudinary_public_id, once bound
    u_asset,        \* upload local: asset.id, once created
    u_text,         \* upload local: text
    u_doc_type,     \* upload local: doc_type
    u_chunks,       \* upload local: chunks
    u_embeddings,   \* upload local: embeddings
    u_response,     \* upload: the HTTP response, once there is one
    upc,            \* "idle", "start", "create", "extract", "chunk",
                    \* "no_content", "embed", "store", "except_doc",
                    \* "except", "done"
    d_user,         \* delete: request.user
    d_asset_id,     \* delete: the asset_id of the url
    d_asset,        \* delete local: asset, once looked up
    d_response,     \* delete: the HTTP response, once there is one
    dpc             \* "idle", "start", "cloudinary", "delete", "done"

uploadVars == <<u_user, u_file, u_public_id, u_asset, u_text, u_doc_type,
                u_chunks, u_embeddings, u_response, upc>>
deleteVars == <<d_user, d_asset_id, d_asset, d_response, dpc>>
assetVars == <<assets, cloud, uploadVars, deleteVars>>

\* The state of the retrieve call, without the table it reads.
retrCall == <<r_query, r_user, r_top_k, r_embedding, rows, r_chunks, rpc>>

\* The ingestion side, which a chat request leaves alone.
ingestVars == <<chunkVars, imageVars, assetVars>>

vars == <<chunkVars, retrVars, classVars, genVars, viewVars, imageVars,
          assetVars>>

\* What a step of one component leaves alone.
chunkOthers == <<retrVars, classVars, genVars, viewVars, imageVars, assetVars>>
retrOthers == <<chunkVars, classVars, genVars, viewVars, imageVars, assetVars>>
classOthers == <<chunkVars, retrVars, genVars, viewVars, imageVars, assetVars>>
genOthers == <<chunkVars, retrVars, classVars, viewVars, imageVars, assetVars>>
imageOthers == <<chunkVars, retrVars, classVars, genVars, viewVars, assetVars>>
\* An upload or delete step may change the chunk table.
assetOthers == <<chunkVars, retrCall, classVars, genVars, viewVars, imageVars>>

(***************************************************************************)
(* The tokenizer.  tiktoken's cl100k_base is a byte-pair encoder: a text   *)
(* is cut into vocabulary entries, several characters merging into one    *)
(* token; decoding concatenates the entries' characters.  The vocabulary  *)
(* here has the single characters and two merges.                         *)
(***************************************************************************)
Chars == {"a", "b", " "}
Whitespace == {" "}
Merges == {<<"a", "b">>, <<" ", "a">>}

Texts == UNION {[1..n -> Chars] : n \in 0..MaxTextLen}

RECURSIVE Encode(_)
Encode(t) ==
    IF t = <<>> THEN <<>>
    ELSE IF Len(t) >= 2 /\ SubSeq(t, 1, 2) \in Merges
         THEN <<SubSeq(t, 1, 2)>> \o Encode(SubSeq(t, 3, Len(t)))
         ELSE <<SubSeq(t, 1, 1)>> \o Encode(SubSeq(t, 2, Len(t)))

RECURSIVE Decode(_)
Decode(toks) ==
    IF toks = <<>> THEN <<>> ELSE Head(toks) \o Decode(Tail(toks))

\* str.strip() of the text: empty iff every character is whitespace.
StripIsEmpty(t) == \A i \in 1..Len(t) : t[i] \in Whitespace

\* Python's tokens[lo:hi] for 0 <= lo.
Slice(s, lo, hi) == SubSeq(s, lo + 1, Min(hi, Len(s)))

\* A single-chunk test that sends a text of exactly chunk_size tokens into the
\* window loop.
FitsSingleChunkStrict(toks, size) == Len(toks) < size

\* `if len(tokens) <= chunk_size` of chunk_text.
FitsSingleChunk(toks, size) == Len(toks) <= size

\* `start += chunk_size - chunk_overlap`, then the safety check.
NextStart(s, size, overlap) ==
    LET moved == s + (size - overlap)
    IN  IF moved <= 0 THEN size ELSE moved

ChunkIdle ==
    /\ text = <<>>
    /\ chunk_size = 1
    /\ chunk_overlap = 0
    /\ tokens = <<>>
    /\ start = 0
    /\ chunks = <<>>
    /\ chunk_windows = <<>>
    /\ cpc = "off"

ChunkInit ==
    /\ text \in Texts
    /\ chunk_size \in 1..MaxChunkSize
    /\ chunk_overlap \in 0..MaxOverlap
    /\ tokens = <<>>
    /\ start = 0
    /\ chunks = <<>>
    /\ chunk_windows = <<>>
    /\ cpc = "call"

\* chunk_text up to the window loop: the blank-text return, the encoding,
\* the single-chunk return.
ChunkTextEntry ==
    /\ cpc = "call"
    /\ IF StripIsEmpty(text)
       THEN /\ cpc' = "done"
            /\ UNCHANGED <<tokens, chunks, chunk_windows>>
       ELSE /\ tokens' = Encode(text)
            /\ IF FitsSingleChunk(tokens', chunk_size)
               THEN /\ chunks' = <<text>>
                    /\ chunk_windows' = <<tokens'>>
                    /\ cpc' = "done"
               ELSE /\ cpc' = "loop"
                    /\ UNCHANGED <<chunks, chunk_windows>>
    /\ UNCHANGED <<text, chunk_size, chunk_overlap, start>>
    /\ UNCHANGED chunkOthers

\* One iteration of `while start < len(tokens)`.
ChunkLoopStep ==
    /\ cpc = "loop"
    /\ start < Len(tokens)
    /\ Len(chunks) < MaxChunks
    /\ LET end == Min(start + chunk_size, Len(tokens))
           chunk_tokens == Slice(tokens, start, end)
       IN  /\ chunks' = Append(chunks, Decode(chunk_tokens))
           /\ chunk_windows' = Append(chunk_windows, chunk_tokens)
    /\ start' = NextStart(start, chunk_size, chunk_overlap)
    /\ UNCHANGED <<text, chunk_size, chunk_overlap, tokens, cpc>>
    /\ UNCHANGED chunkOthers

\* The loop condition fails: `return chunks`.
ChunkLoopExit ==
    /\ cpc = "loop"
    /\ ~(start < Len(tokens))
    /\ cpc' = "done"
    /\ UNCHANGED <<text, chunk_size, chunk_overlap, tokens, start, chunks,
                   chunk_windows>>
    /\ UNCHANGED chunkOthers

ChunkNext == ChunkTextEntry \/ ChunkLoopStep \/ ChunkLoopExit

(***************************************************************************)
(* The retriever: src/backend/rag/pipeline/retriever.py.                   *)
(***************************************************************************)
Users == {"A", "B"}
Messages == {"q0", "q1"}
Contents == {"d0", "d1", "d2", "d3", "d4"}

DEFAULT_TOP_K == 8
\* 0.25, in hundredths.
SIMILARITY_THRESHOLD == 25

\* The embedding model (model.encode): a fixed vector per text, named here by
\* an index; equal texts get equal vectors.
GenerateEmbedding(t) ==
    CASE t = "q0" -> 0
      [] t = "q1" -> 1
      [] t = "d0" -> 0
      [] t = "d1" -> 1
      [] t = "d2" -> 2
      [] t = "d3" -> 3
      [] t = "d4" -> 4

\* pgvector's `<=>`, the cosine distance of two vectors, in hundredths
\* (0 for equal directions, up to 200 for opposite ones).
CosineDistance(e1, e2) ==
    LET d == IF e1 >= e2 THEN e1 - e2 ELSE e2 - e1
    IN  CASE d = 0 -> 0
          [] d = 1 -> 50
          [] d = 2 -> 75
          [] d = 3 -> 76
          [] d = 4 -> 130

\* The asset a chunk row of user u with content c references; rows written
\* before assets existed have none.
AssetOf(u, c) ==
    CASE c = "d0" -> NULL
      [] c \in {"d1", "d2"} -> u \o "-asset1"
      [] c \in {"d3", "d4"} -> u \o "-asset2"

RowId(u, c) == u \o "-" \o c

\* The doc_type a chunk row with content c was stored with.
DocTypeOf(c) ==
    CASE c \in {"d0", "d1"} -> "pdf"
      [] c \in {"d2", "d3"} -> "docx"
      [] c = "d4" -> "image"

\* A DocumentChunk row (document_id, source, created_at left out).
ChunkRow(u, c) ==
    [id |-> RowId(u, c), user_id |-> u, asset_id |-> AssetOf(u, c),
     doc_type |-> DocTypeOf(c), content |-> c,
     embedding |-> GenerateEmbedding(c)]

RowUniverse == {ChunkRow(u, c) : u \in Users, c \in Contents}

Stores == {s \in SUBSET RowUniverse : Cardinality(s) <= MaxRows}

\* The tables a chat request is run over: those without the image row.
ChatStores == {s \in Stores : \A r \in s : r.doc_type # "image"}

\* `1 - (embedding <=> %s::vector) as similarity`.
Similarity(row, qe) == 100 - CosineDistance(row.embedding, qe)

\* A WHERE clause without the tenant filter.
WhereClauseAnyUser(row, qe, user_id) ==
    Similarity(row, qe) >= SIMILARITY_THRESHOLD

\* A WHERE clause without the threshold.
WhereClauseNoThreshold(row, qe, user_id) == row.user_id = user_id

\* `WHERE user_id = %s AND (1 - (embedding <=> %s::vector)) >= %s`.
WhereClause(row, qe, user_id) ==
    /\ row.user_id = user_id
    /\ Similarity(row, qe) >= SIMILARITY_THRESHOLD

\* An ORDER BY that puts the farthest row first.
OrderByDescending(r1, r2, qe) ==
    CosineDistance(r1.embedding, qe) >= CosineDistance(r2.embedding, qe)

\* `ORDER BY embedding <=> %s::vector`: r1 may come before r2.
OrderBy(r1, r2, qe) ==
    CosineDistance(r1.embedding, qe) <= CosineDistance(r2.embedding, qe)

\* The row tuple the SELECT list produces.
SelectRow(row, qe) ==
    [id |-> row.id, content |-> row.content, doc_type |-> row.doc_type,
     asset_id |-> row.asset_id, similarity |-> Similarity(row, qe)]

\* The results the query of _execute_vector_search may return: the rows
\* that pass the WHERE clause, in an order the ORDER BY allows (rows at equal
\* distance come in either order), cut after LIMIT rows.
VectorSearch(table, qe, user_id, top_k) ==
    LET matching == {r \in table : WhereClause(r, qe, user_id)}
        m == Min(top_k, Cardinality(matching))
    IN  {[i \in 1..m |-> SelectRow(s[i], qe)] :
            s \in {t \in [1..m -> matching] :
                     /\ \A i, j \in 1..m : i < j =>
                            (t[i] # t[j] /\ OrderBy(t[i], t[j], qe))
                     /\ \A r \in matching :
                            (\A i \in 1..m : t[i] # r) =>
                                \A i \in 1..m : OrderBy(t[i], r, qe)}}

\* The RetrievedChunk built from a result row.
RetrievedChunk(row) ==
    [content |-> row.content,
     doc_type |-> row.doc_type,
     asset_id |-> IF row.asset_id # NULL THEN row.asset_id ELSE NULL,
     similarity |-> row.similarity]

RetrIdle ==
    /\ r_query = NULL
    /\ r_user = NULL
    /\ r_top_k = DEFAULT_TOP_K
    /\ r_embedding = NULL
    /\ rows = <<>>
    /\ r_chunks = <<>>
    /\ rpc = "idle"

\* `query_embedding = await EmbeddingsService.generate_embedding(query)`.
RetrieveEmbed ==
    /\ rpc = "embed"
    /\ r_embedding' = GenerateEmbedding(r_query)
    /\ rpc' = "search"
    /\ UNCHANGED <<store, r_query, r_user, r_top_k, rows, r_chunks>>
    /\ UNCHANGED retrOthers

\* The embedding service raises: retrieve raises.
RetrieveEmbedFails ==
    /\ rpc = "embed"
    /\ rpc' = "raised"
    /\ UNCHANGED <<store, r_query, r_user, r_top_k, r_embedding, rows,
                   r_chunks>>
    /\ UNCHANGED retrOthers

\* `rows = await sync_to_async(_execute_vector_search)(...)` and the loop that
\* builds the chunks.
RetrieveSearch ==
    /\ rpc = "search"
    /\ \E result \in VectorSearch(store, r_embedding, r_user, r_top_k) :
          /\ rows' = result
          /\ r_chunks' = [i \in 1..Len(result) |-> RetrievedChunk(result[i])]
    /\ rpc' = "returned"
    /\ UNCHANGED <<store, r_query, r_user, r_top_k, r_embedding>>
    /\ UNCHANGED retrOthers

\* A retrieve that answers a failed search with an empty list.
RetrieveSearchFailsEmpty ==
    /\ rpc = "search"
    /\ rows' = <<>>
    /\ r_chunks' = <<>>
    /\ rpc' = "returned"
    /\ UNCHANGED <<store, r_query, r_user, r_top_k, r_embedding>>
    /\ UNCHANGED retrOthers

\* The search backend raises: retrieve raises.
RetrieveSearchFails ==
    /\ rpc = "search"
    /\ rpc' = "raised"
    /\ UNCHANGED <<store, r_query, r_user, r_top_k, r_embedding, rows,
                   r_chunks>>
    /\ UNCHANGED retrOthers

RetrNext ==
    \/ RetrieveEmbed
    \/ RetrieveEmbedFails
    \/ RetrieveSearch
    \/ RetrieveSearchFails


(***************************************************************************)
(* The classifier: src/backend/rag/pipeline/query_classifier.py, over      *)
(* LLMService.complete_json of src/backend/rag/services/llm.py.            *)
(***************************************************************************)
QueryTypes == {"GENERAL", "PROFILE_DEPENDENT", "HYBRID"}

\* Python values json.loads may return.
PyStr(x) == [t |-> "str", v |-> x]
PyNone == [t |-> "NoneType", v |-> "None"]
PyInt(x) == [t |-> "int", v |-> x]
PyList(x) == [t |-> "list", v |-> x]
PyDict(d) == [t |-> "dict", v |-> d]
EmptyDict == [k \in {} |-> PyNone]

\* The message.content the model may answer a classification call with:
\* None, no text, text that is no JSON, JSON that is no object, and objects
\* without the field, with one of the three names, or with another value.
ClassifierContents ==
    {NULL, "", "Sure! GENERAL", "null", "[]", "7", "\"HYBRID\"", "{}",
     "{\"type\": \"HYBRID\"}",
     "{\"query_type\": \"GENERAL\"}",
     "{\"query_type\": \"PROFILE_DEPENDENT\"}",
     "{\"query_type\": \"HYBRID\"}",
     "{\"query_type\": \"hybrid\"}",
     "{\"query_type\": \"PERSONAL\"}",
     "{\"query_type\": null}",
     "{\"query_type\": 7}",
     "{\"query_type\": [\"HYBRID\"]}"}

\* What the chat-completions call of a classification may do: raise, or
\* answer with one of the contents.
OracleResponses ==
    {[api |-> "error", content |-> NULL]}
        \cup {[api |-> "ok", content |-> c] : c \in ClassifierContents}

\* json.loads: the parsed value, or a JSONDecodeError.
JsonLoads(c) ==
    CASE c = "null" -> [ok |-> TRUE, value |-> PyNone]
      [] c = "[]" -> [ok |-> TRUE, value |-> PyList("")]
      [] c = "7" -> [ok |-> TRUE, value |-> PyInt("7")]
      [] c = "\"HYBRID\"" -> [ok |-> TRUE, value |-> PyStr("HYBRID")]
      [] c = "{}" -> [ok |-> TRUE, value |-> PyDict(EmptyDict)]
      [] c = "{\"type\": \"HYBRID\"}" ->
            [ok |-> TRUE, value |-> PyDict([type |-> PyStr("HYBRID")])]
      [] c = "{\"query_type\": \"GENERAL\"}" ->
            [ok |-> TRUE, value |-> PyDict([query_type |-> PyStr("GENERAL")])]
      [] c = "{\"query_type\": \"PROFILE_DEPENDENT\"}" ->
            [ok |-> TRUE,
             value |-> PyDict([query_type |-> PyStr("PROFILE_DEPENDENT")])]
      [] c = "{\"query_type\": \"HYBRID\"}" ->
            [ok |-> TRUE, value |-> PyDict([query_type |-> PyStr("HYBRID")])]
      [] c = "{\"query_type\": \"hybrid\"}" ->
            [ok |-> TRUE, value |-> PyDict([query_type |-> PyStr("hybrid")])]
      [] c = "{\"query_type\": \"PERSONAL\"}" ->
            [ok |-> TRUE, value |-> PyDict([query_type |-> PyStr("PERSONAL")])]
      [] c = "{\"query_type\": null}" ->
            [ok |-> TRUE, value |-> PyDict([query_type |-> PyNone])]
      [] c = "{\"query_type\": 7}" ->
            [ok |-> TRUE, value |-> PyDict([query_type |-> PyInt("7")])]
      [] c = "{\"query_type\": [\"HYBRID\"]}" ->
            [ok |-> TRUE, value |-> PyDict([query_type |-> PyList("HYBRID")])]
      [] OTHER -> [ok |-> FALSE, value |-> PyNone]

Raised(e) == [raised |-> TRUE, error |-> e, value |-> NULL]
Returned(x) == [raised |-> FALSE, error |-> NULL, value |-> x]

\* LLMService.complete_json: the call, `content or "{}"`, json.loads.
CompleteJson(resp) ==
    IF resp.api = "error" THEN Raised("APIError")
    ELSE LET content == IF resp.content \in {NULL, ""} THEN "{}"
                        ELSE resp.content
             parsed == JsonLoads(content)
         IN  IF parsed.ok THEN Returned(parsed.value)
             ELSE Raised("JSONDecodeError")

\* `response.get("query_type", "GENERAL")`.
GetQueryType(parsed) ==
    IF parsed.t # "dict" THEN Raised("AttributeError")
    ELSE IF "query_type" \in DOMAIN parsed.v
         THEN Returned(parsed.v["query_type"])
         ELSE Returned(PyStr("GENERAL"))

\* `QueryType(raw_type)` inside try / except ValueError.
ToQueryType(raw_type) ==
    IF raw_type.t = "str" /\ raw_type.v \in QueryTypes THEN raw_type.v
    ELSE "GENERAL"

\* QueryClassifier.classify for one behaviour of the model.
ClassifyOutcome(resp) ==
    LET parsed == CompleteJson(resp)
    IN  IF parsed.raised THEN parsed
        ELSE LET raw_type == GetQueryType(parsed.value)
             IN  IF raw_type.raised THEN raw_type
                 ELSE Returned(ToQueryType(raw_type.value))

\* A retrieval gate that is open for every type.
NeedsRetrievalAlways(query_type) == TRUE

\* QueryClassifier.needs_retrieval.
NeedsRetrieval(query_type) == query_type # "GENERAL"

ClassIdle ==
    /\ q_query = NULL
    /\ q_response = NULL
    /\ q_result = NULL
    /\ qpc = "idle"

\* The body of classify: the model is called and answers (or raises), the
\* answer is parsed and mapped to a QueryType.
Classify ==
    /\ qpc = "call"
    /\ \E resp \in OracleResponses :
          /\ q_response' = resp
          /\ LET out == ClassifyOutcome(resp)
             IN  IF out.raised
                 THEN /\ q_result' = out.error
                      /\ qpc' = "raised"
                 ELSE /\ q_result' = out.value
                      /\ qpc' = "returned"
    /\ UNCHANGED q_query
    /\ UNCHANGED classOthers

(***************************************************************************)
(* The generator: src/backend/rag/pipeline/generator.py, with the prompt   *)
(* of src/backend/rag/prompts/rag.py.                                      *)
(***************************************************************************)

\* An optional list: Python's None, or a list.
NoneList == [is_none |-> TRUE, items |-> <<>>]
ListOf(items) == [is_none |-> FALSE, items |-> items]

SOURCE_LIMIT == 3
EXCERPT_LENGTH == 100

NO_CONTEXT_MARKER == "No relevant context found. Answer from general knowledge."

\* The number of characters of the stored texts.
ContentLength(c) ==
    CASE c = "d0" -> 3
      [] c = "d1" -> 100
      [] c = "d2" -> 101
      [] c = "d3" -> 150
      [] c = "d4" -> 1

\* The characters of a stored text, each named by its text and position.
ContentText(c) == [i \in 1..ContentLength(c) |-> <<c, i>>]

\* str.upper() of a doc_type.
Upper(x) ==
    CASE x = "pdf" -> "PDF"
      [] x = "docx" -> "DOCX"
      [] x = "image" -> "IMAGE"

\* Retriever.has_relevant_context.
HasRelevantContext(chunk_list) == Len(chunk_list) > 0

\* Retriever.format_context: None if no chunks, else the labelled blocks in
\* retrieval order (the separator-joined string is kept as its blocks).
FormatContext(chunk_list) ==
    IF Len(chunk_list) = 0 THEN NoneList
    ELSE ListOf([i \in 1..Len(chunk_list) |->
                    [label |-> i,
                     doc_type |-> Upper(chunk_list[i].doc_type),
                     content |-> ContentText(chunk_list[i].content)]])

\* A use_context that forgets has_relevant_context.
UseContextAnyList(chunk_opt) == ~chunk_opt.is_none

\* `use_context = chunks is not None and has_relevant_context(chunks)`.
UseContext(chunk_opt) ==
    ~chunk_opt.is_none /\ HasRelevantContext(chunk_opt.items)

\* A template filled with an empty context when there is none.
FormatRagUserMessageNoMarker(question, context) ==
    IF ~context.is_none /\ context.items # <<>>
    THEN [context |-> "documents", blocks |-> context.items,
          question |-> question]
    ELSE [context |-> "", blocks |-> <<>>, question |-> question]

\* format_rag_user_message: the template filled with the context, or with
\* the marker when the context is None or empty.
FormatRagUserMessage(question, context) ==
    IF ~context.is_none /\ context.items # <<>>
    THEN [context |-> "documents", blocks |-> context.items,
          question |-> question]
    ELSE [context |-> NO_CONTEXT_MARKER, blocks |-> <<>>,
          question |-> question]

\* The user message generate and stream_generate build.
BuildUserMessage(question, chunk_opt) ==
    FormatRagUserMessage(question,
        IF UseContext(chunk_opt) THEN FormatContext(chunk_opt.items)
        ELSE NoneList)

\* get_rag_system_prompt(): the RAG_SYSTEM_PROMPT text.
GetRagSystemPrompt == "RAG_SYSTEM_PROMPT"

\* `content[:100]`.
Excerpt(c) ==
    SubSeq(ContentText(c), 1, Min(EXCERPT_LENGTH, ContentLength(c)))

\* A source list without the `[:3]` cut.
ExtractSourcesAll(use_context, chunk_opt) ==
    IF use_context /\ ~chunk_opt.is_none /\ Len(chunk_opt.items) > 0
    THEN ListOf([i \in 1..Len(chunk_opt.items) |->
                    [asset_id |-> IF chunk_opt.items[i].asset_id # NULL
                                  THEN chunk_opt.items[i].asset_id
                                  ELSE "unknown",
                     excerpt |-> Excerpt(chunk_opt.items[i].content)]])
    ELSE NoneList

\* `sources = None; if use_context and chunks: sources = [... chunks[:3]]`.
ExtractSources(use_context, chunk_opt) ==
    IF use_context /\ ~chunk_opt.is_none /\ Len(chunk_opt.items) > 0
    THEN ListOf([i \in 1..Min(SOURCE_LIMIT, Len(chunk_opt.items)) |->
                    [asset_id |-> IF chunk_opt.items[i].asset_id # NULL
                                  THEN chunk_opt.items[i].asset_id
                                  ELSE "unknown",
                     excerpt |-> Excerpt(chunk_opt.items[i].content)]])
    ELSE NoneList

\* The texts the model may answer a generation call with, and str.strip().
AnswerTexts == {"", "hi", " hi\n"}
Strip(a) == IF a = " hi\n" THEN "hi" ELSE a

\* The delta.content of an upstream stream chunk: none, or a fragment.
Deltas == {"", "x", "y"}

\* The upstream stream is exhausted: its iterator stops.
EndOfStream == "[END]"

NoResult == [answer |-> "", used_context |-> FALSE, sources |-> NoneList]

GenIdle ==
    /\ g_question = NULL
    /\ g_chunks = NoneList
    /\ g_use_context = FALSE
    /\ g_system_prompt = NULL
    /\ g_user_message = NULL
    /\ g_upstream = <<>>
    /\ g_handle = "none"
    /\ g_events = <<>>
    /\ g_result = NoResult
    /\ gpc = "idle"

\* generate from the call to the request sent to the model.
GenBegin(question, chunk_opt) ==
    /\ g_question' = question
    /\ g_chunks' = chunk_opt
    /\ g_use_context' = UseContext(chunk_opt)
    /\ g_system_prompt' = GetRagSystemPrompt
    /\ g_user_message' = BuildUserMessage(question, chunk_opt)
    /\ gpc' = "call"
    /\ UNCHANGED <<g_upstream, g_handle, g_events, g_result>>

\* A stream_generate whose use_context forgets has_relevant_context.
StreamUseContextNotNone(chunk_opt) == ~chunk_opt.is_none

\* stream_generate:
\* `use_context = chunks is not None and has_relevant_context(chunks)`.
StreamUseContext(chunk_opt) ==
    ~chunk_opt.is_none /\ HasRelevantContext(chunk_opt.items)

\* stream_generate: the user message it builds.
StreamBuildUserMessage(question, chunk_opt) ==
    FormatRagUserMessage(question,
        IF StreamUseContext(chunk_opt) THEN FormatContext(chunk_opt.items)
        ELSE NoneList)

\* stream_generate:
\* `sources = None; if use_context and chunks: sources = [... chunks[:3]]`.
StreamExtractSources(use_context, chunk_opt) ==
    IF use_context /\ ~chunk_opt.is_none /\ Len(chunk_opt.items) > 0
    THEN ListOf([i \in 1..Min(SOURCE_LIMIT, Len(chunk_opt.items)) |->
                    [asset_id |-> IF chunk_opt.items[i].asset_id # NULL
                                  THEN chunk_opt.items[i].asset_id
                                  ELSE "unknown",
                     excerpt |-> Excerpt(chunk_opt.items[i].content)]])
    ELSE NoneList

\* stream_generate from the call to the request sent to the model.
StreamGenBegin(question, chunk_opt) ==
    /\ g_question' = question
    /\ g_chunks' = chunk_opt
    /\ g_use_context' = StreamUseContext(chunk_opt)
    /\ g_system_prompt' = GetRagSystemPrompt
    /\ g_user_message' = StreamBuildUserMessage(question, chunk_opt)
    /\ gpc' = "open"
    /\ UNCHANGED <<g_upstream, g_handle, g_events, g_result>>

\* generate: LLMService.complete answers, the GeneratedAnswer is returned.
GenerateReturn ==
    /\ gpc = "call"
    /\ \E answer \in AnswerTexts :
          g_result' = [answer |-> Strip(answer),
                       used_context |-> g_use_context,
                       sources |-> ExtractSources(g_use_context, g_chunks)]
    /\ gpc' = "returned"
    /\ UNCHANGED <<g_question, g_chunks, g_use_context, g_system_prompt,
                   g_user_message,
                   g_upstream, g_handle, g_events>>
    /\ UNCHANGED genOthers

\* generate: LLMService.complete raises.
GenerateRaise ==
    /\ gpc = "call"
    /\ gpc' = "raised"
    /\ UNCHANGED <<g_question, g_chunks, g_use_context, g_system_prompt,
                   g_user_message, g_upstream, g_handle, g_events,
                   g_result>>
    /\ UNCHANGED genOthers

\* stream_generate: the streaming call of stream_complete is accepted.
StreamOpen ==
    /\ gpc = "open"
    /\ gpc' = "streaming"
    /\ g_handle' = "open"
    /\ UNCHANGED <<g_question, g_chunks, g_use_context, g_system_prompt,
                   g_user_message, g_upstream, g_events, g_result>>
    /\ UNCHANGED genOthers

\* A loop that takes a chunk without content for the end of the answer.
StreamChunkEndsOnEmpty ==
    /\ gpc = "streaming"
    /\ Len(g_upstream) < MaxStreamChunks
    /\ \E delta \in Deltas :
          /\ g_upstream' = Append(g_upstream, delta)
          /\ IF delta # ""
             THEN /\ g_events' = Append(g_events,
                                        [type |-> "token", content |-> delta])
                  /\ gpc' = "yielded_token"
             ELSE /\ g_events' = Append(g_events,
                          [type |-> "done", used_context |-> g_use_context,
                           sources |->
                               StreamExtractSources(g_use_context, g_chunks)])
                  /\ gpc' = "yielded_done"
    /\ UNCHANGED <<g_question, g_chunks, g_use_context, g_system_prompt,
                   g_user_message, g_handle, g_result>>
    /\ UNCHANGED genOthers

\* stream_generate: the upstream stream delivers one more chunk; a chunk
\* with content is yielded as a token event, one without is skipped.
StreamChunk ==
    /\ gpc = "streaming"
    /\ Len(g_upstream) < MaxStreamChunks
    /\ \E delta \in Deltas :
          /\ g_upstream' = Append(g_upstream, delta)
          /\ IF delta # ""
             THEN /\ g_events' = Append(g_events,
                                        [type |-> "token", content |-> delta])
                  /\ gpc' = "yielded_token"
             ELSE UNCHANGED <<g_events, gpc>>
    /\ UNCHANGED <<g_question, g_chunks, g_use_context, g_system_prompt,
                   g_user_message, g_handle, g_result>>
    /\ UNCHANGED genOthers

\* A stream_generate that ends without its final yield.
StreamEndNoDone ==
    /\ gpc = "streaming"
    /\ g_upstream' = Append(g_upstream, EndOfStream)
    /\ g_handle' = "closed"
    /\ gpc' = "yielded_done"
    /\ UNCHANGED <<g_question, g_chunks, g_use_context, g_system_prompt,
                   g_user_message, g_events, g_result>>
    /\ UNCHANGED genOthers

\* stream_generate: the upstream stream is exhausted (read to its end, it
\* has given its connection back); the done event.
StreamEnd ==
    /\ gpc = "streaming"
    /\ g_upstream' = Append(g_upstream, EndOfStream)
    /\ g_handle' = "closed"
    /\ g_events' = Append(g_events,
                          [type |-> "done", used_context |-> g_use_context,
                           sources |->
                               StreamExtractSources(g_use_context, g_chunks)])
    /\ gpc' = "yielded_done"
    /\ UNCHANGED <<g_question, g_chunks, g_use_context, g_system_prompt,
                   g_user_message, g_result>>
    /\ UNCHANGED genOthers

\* stream_generate: the streaming call, or the stream once open, raises;
\* neither stream_complete nor stream_generate closes the stream.
StreamRaise ==
    /\ gpc \in {"open", "streaming"}
    /\ gpc' = "raised"
    /\ UNCHANGED <<g_question, g_chunks, g_use_context, g_system_prompt,
                   g_user_message, g_upstream, g_handle, g_events,
                   g_result>>
    /\ UNCHANGED genOthers



(***************************************************************************)
(* The chat views: ChatView.post and ChatStreamView.post of                *)
(* src/backend/rag/views.py.                                               *)
(***************************************************************************)
ExistingSessions == {[id |-> "s-A", user |-> "A"], [id |-> "s-B", user |-> "B"]}
NewSessionId == "s-new"

NoResponse == [status |-> 0, body |-> "none"]

Event(name, arg) == [ev |-> name, arg |-> arg]

\* `ChatSession.objects.filter(id=session_id, user=user).first()`.
FindSession(id, user) == {x \in sessions : x.id = id /\ x.user = user}

ViewIdle ==
    /\ sessions = ExistingSessions
    /\ messages = <<>>
    /\ v_mode = "batch"
    /\ v_user = NULL
    /\ v_message = NULL
    /\ v_session_id = NULL
    /\ v_session = NULL
    /\ v_query_type = NULL
    /\ v_chunks = NoneList
    /\ full_response = ""
    /\ v_used_context = FALSE
    /\ v_sources = NoneList
    /\ response = NoResponse
    /\ sse = <<>>
    /\ trace = <<>>
    /\ vpc = "idle"

ViewInit ==
    /\ sessions = ExistingSessions
    /\ messages = <<>>
    /\ v_mode \in {"batch", "stream"}
    /\ v_user \in Users
    /\ v_message \in Messages \cup {""}
    /\ v_session_id \in {NULL, "s-A", "s-B"}
    /\ v_session = NULL
    /\ v_query_type = NULL
    /\ v_chunks = NoneList
    /\ full_response = ""
    /\ v_used_context = FALSE
    /\ v_sources = NoneList
    /\ response = NoResponse
    /\ sse = <<>>
    /\ trace = <<>>
    /\ vpc = "start"

\* The except clause of ChatView.post (a 500 response) and of event_stream
\* (an error event on the stream).
ChatFail(error) ==
    /\ IF v_mode = "batch"
       THEN /\ response' = [status |-> 500, body |-> error]
            /\ UNCHANGED sse
       ELSE /\ sse' = Append(sse, [type |-> "error", message |-> error])
            /\ UNCHANGED response
    /\ vpc' = "done"

\* Up to the first pipeline call: the serializer, the session looked up or
\* created, the user message saved; the streaming view returns its response.
ChatBegin ==
    /\ vpc = "start"
    /\ IF v_message = ""
       THEN /\ response' = [status |-> 400, body |-> "Invalid request"]
            /\ vpc' = "done"
            /\ UNCHANGED <<sessions, messages, v_session>>
       ELSE IF v_session_id # NULL /\ FindSession(v_session_id, v_user) = {}
       THEN /\ response' = [status |-> 404, body |-> "Session not found"]
            /\ vpc' = "done"
            /\ UNCHANGED <<sessions, messages, v_session>>
       ELSE /\ IF v_session_id # NULL
               THEN /\ v_session' = v_session_id
                    /\ UNCHANGED sessions
               ELSE /\ v_session' = NewSessionId
                    /\ sessions' = sessions \cup
                           {[id |-> NewSessionId, user |-> v_user]}
            /\ messages' = Append(messages,
                   [session |-> v_session', role |-> "user",
                    content |-> v_message, used_context |-> FALSE])
            /\ response' = IF v_mode = "stream"
                           THEN [status |-> 200, body |-> "event-stream"]
                           ELSE response
            /\ vpc' = "classify"
    /\ UNCHANGED <<v_mode, v_user, v_message, v_session_id, v_query_type,
                   v_chunks, full_response, v_used_context, v_sources, sse,
                   trace>>
    /\ UNCHANGED <<retrVars, classVars, genVars>>
    /\ UNCHANGED ingestVars

\* `query_type = await QueryClassifier.classify(message)`: the call.
ChatCallClassify ==
    /\ vpc = "classify"
    /\ qpc = "idle"
    /\ q_query' = v_message
    /\ qpc' = "call"
    /\ trace' = Append(trace, Event("classify_start", v_message))
    /\ vpc' = "classifying"
    /\ UNCHANGED <<q_response, q_result>>
    /\ UNCHANGED <<sessions, messages, v_mode, v_user, v_message,
                   v_session_id, v_session, v_query_type, v_chunks,
                   full_response, v_used_context, v_sources, response, sse>>
    /\ UNCHANGED <<retrVars, genVars>>
    /\ UNCHANGED ingestVars

\* The call of Generator.generate or, after the session event is sent, of
\* Generator.stream_generate.
ChatCallGenerate(chunk_opt, events) ==
    /\ IF v_mode = "batch" THEN GenBegin(v_message, chunk_opt)
       ELSE StreamGenBegin(v_message, chunk_opt)
    /\ trace' = Append(events, Event("generate_start", v_message))
    /\ sse' = IF v_mode = "stream"
              THEN Append(sse, [type |-> "session", session_id |-> v_session])
              ELSE sse
    /\ vpc' = "generating"

\* classify has returned or raised: needs_retrieval decides between the call
\* of Retriever.retrieve and the generation without chunks.
ChatAfterClassify ==
    /\ vpc = "classifying"
    /\ qpc \in {"returned", "raised"}
    /\ qpc' = "done"
    /\ q_response' = NULL
    /\ UNCHANGED <<q_query, q_result>>
    /\ IF qpc = "raised"
       THEN /\ ChatFail(q_result)
            /\ trace' = Append(trace, Event("classify_raise", q_result))
            /\ UNCHANGED <<v_query_type, v_chunks>>
            /\ UNCHANGED <<retrVars, genVars>>
       ELSE /\ v_query_type' = q_result
            /\ LET returned ==
                       Append(trace, Event("classify_return", q_result))
               IN  IF NeedsRetrieval(q_result)
                   THEN /\ r_query' = v_message
                        /\ r_user' = v_user
                        /\ r_top_k' = DEFAULT_TOP_K
                        /\ rpc' = "embed"
                        /\ trace' = Append(returned,
                                       Event("retrieve_start", v_user))
                        /\ vpc' = "retrieving"
                        /\ UNCHANGED <<store, r_embedding, rows, r_chunks>>
                        /\ UNCHANGED <<v_chunks, response, sse>>
                        /\ UNCHANGED genVars
                   ELSE /\ ChatCallGenerate(NoneList, returned)
                        /\ UNCHANGED <<v_chunks, response>>
                        /\ UNCHANGED retrVars
    /\ UNCHANGED <<sessions, messages, v_mode, v_user, v_message,
                   v_session_id, v_session, full_response, v_used_context,
                   v_sources>>
    /\ UNCHANGED ingestVars

\* retrieve has returned or raised.
ChatAfterRetrieve ==
    /\ vpc = "retrieving"
    /\ rpc \in {"returned", "raised"}
    /\ IF rpc = "raised"
       THEN /\ ChatFail("RetrievalError")
            /\ trace' = Append(trace, Event("retrieve_raise", v_user))
            /\ UNCHANGED v_chunks
            /\ UNCHANGED genVars
       ELSE /\ v_chunks' = ListOf(r_chunks)
            /\ ChatCallGenerate(v_chunks',
                   Append(trace, Event("retrieve_return", Len(r_chunks))))
            /\ UNCHANGED response
    /\ UNCHANGED <<sessions, messages, v_mode, v_user, v_message,
                   v_session_id, v_session, v_query_type, full_response,
                   v_used_context, v_sources>>
    /\ UNCHANGED <<retrVars, classVars>>
    /\ UNCHANGED ingestVars

\* A view that saves an empty assistant message when generation fails.
ChatAfterGenerateSavesOnError ==
    /\ vpc = "generating"
    /\ v_mode = "batch"
    /\ gpc \in {"returned", "raised"}
    /\ IF gpc = "raised"
       THEN /\ ChatFail("GenerationError")
            /\ trace' = Append(trace, Event("generate_raise", v_message))
            /\ messages' = Append(messages,
                   [session |-> v_session, role |-> "assistant",
                    content |-> "", used_context |-> FALSE])
       ELSE /\ messages' = Append(messages,
                   [session |-> v_session, role |-> "assistant",
                    content |-> g_result.answer,
                    used_context |-> g_result.used_context])
            /\ response' =
                   [status |-> 200,
                    body |-> [session_id |-> v_session,
                              answer |-> g_result.answer,
                              used_context |-> g_result.used_context,
                              sources |->
                                  IF ~g_result.sources.is_none
                                     /\ g_result.sources.items # <<>>
                                  THEN g_result.sources
                                  ELSE NoneList]]
            /\ trace' = Append(trace, Event("generate_return", v_message))
            /\ vpc' = "done"
            /\ UNCHANGED sse
    /\ UNCHANGED <<sessions, v_mode, v_user, v_message, v_session_id,
                   v_session, v_query_type, v_chunks, full_response,
                   v_used_context, v_sources>>
    /\ UNCHANGED <<retrVars, classVars, genVars>>
    /\ UNCHANGED ingestVars

\* ChatView.post after generate: the assistant message saved and the 200
\* response, or the 500 response.
ChatAfterGenerate ==
    /\ vpc = "generating"
    /\ v_mode = "batch"
    /\ gpc \in {"returned", "raised"}
    /\ IF gpc = "raised"
       THEN /\ ChatFail("GenerationError")
            /\ trace' = Append(trace, Event("generate_raise", v_message))
            /\ UNCHANGED messages
       ELSE /\ messages' = Append(messages,
                   [session |-> v_session, role |-> "assistant",
                    content |-> g_result.answer,
                    used_context |-> g_result.used_context])
            /\ response' =
                   [status |-> 200,
                    body |-> [session_id |-> v_session,
                              answer |-> g_result.answer,
                              used_context |-> g_result.used_context,
                              sources |->
                                  IF ~g_result.sources.is_none
                                     /\ g_result.sources.items # <<>>
                                  THEN g_result.sources
                                  ELSE NoneList]]
            /\ trace' = Append(trace, Event("generate_return", v_message))
            /\ vpc' = "done"
            /\ UNCHANGED sse
    /\ UNCHANGED <<sessions, v_mode, v_user, v_message, v_session_id,
                   v_session, v_query_type, v_chunks, full_response,
                   v_used_context, v_sources>>
    /\ UNCHANGED <<retrVars, classVars, genVars>>
    /\ UNCHANGED ingestVars

\* event_stream: a token event is appended to full_response and sent.
ChatStreamToken ==
    /\ vpc = "generating"
    /\ v_mode = "stream"
    /\ gpc = "yielded_token"
    /\ LET event == g_events[Len(g_events)]
       IN  /\ full_response' = full_response \o event.content
           /\ sse' = Append(sse, event)
    /\ gpc' = "streaming"
    /\ UNCHANGED <<g_question, g_chunks, g_use_context, g_system_prompt,
                   g_user_message, g_upstream, g_handle, g_events,
                   g_result>>
    /\ UNCHANGED <<sessions, messages, v_mode, v_user, v_message,
                   v_session_id, v_session, v_query_type, v_chunks,
                   v_used_context, v_sources, response, trace, vpc>>
    /\ UNCHANGED <<retrVars, classVars>>
    /\ UNCHANGED ingestVars

\* event_stream: the done event of stream_generate is taken in and the
\* generator ends.
ChatStreamDone ==
    /\ vpc = "generating"
    /\ v_mode = "stream"
    /\ gpc = "yielded_done"
    /\ LET event == g_events[Len(g_events)]
       IN  /\ v_used_context' = event.used_context
           /\ v_sources' = event.sources
    /\ gpc' = "returned"
    /\ trace' = Append(trace, Event("generate_return", v_message))
    /\ vpc' = "persist"
    /\ UNCHANGED <<g_question, g_chunks, g_use_context, g_system_prompt,
                   g_user_message, g_upstream, g_handle, g_events,
                   g_result>>
    /\ UNCHANGED <<sessions, messages, v_mode, v_user, v_message,
                   v_session_id, v_session, v_query_type, v_chunks,
                   full_response, response, sse>>
    /\ UNCHANGED <<retrVars, classVars>>
    /\ UNCHANGED ingestVars

\* The assistant message event_stream saves.
AssistantMessage ==
    [session |-> v_session, role |-> "assistant", content |-> full_response,
     used_context |-> v_used_context]

\* An event_stream that sends the final event without saving the message.
ChatStreamPersistUnsaved ==
    /\ vpc = "persist"
    /\ sse' = Append(sse, [type |-> "done", used_context |-> v_used_context,
                           sources |-> v_sources])
    /\ vpc' = "done"
    /\ UNCHANGED <<sessions, messages, v_mode, v_user, v_message,
                   v_session_id, v_session, v_query_type, v_chunks,
                   full_response, v_used_context, v_sources, response, trace>>
    /\ UNCHANGED <<retrVars, classVars, genVars>>
    /\ UNCHANGED ingestVars

\* event_stream: the assistant message is saved and the final event sent.
ChatStreamPersist ==
    /\ vpc = "persist"
    /\ messages' = Append(messages, AssistantMessage)
    /\ sse' = Append(sse, [type |-> "done", used_context |-> v_used_context,
                           sources |-> v_sources])
    /\ vpc' = "done"
    /\ UNCHANGED <<sessions, v_mode, v_user, v_message, v_session_id,
                   v_session, v_query_type, v_chunks, full_response,
                   v_used_context, v_sources, response, trace>>
    /\ UNCHANGED <<retrVars, classVars, genVars>>
    /\ UNCHANGED ingestVars

\* An event_stream that ends without a word when stream_generate raises.
ChatStreamErrorSilent ==
    /\ vpc = "generating"
    /\ v_mode = "stream"
    /\ gpc = "raised"
    /\ vpc' = "done"
    /\ trace' = Append(trace, Event("generate_raise", v_message))
    /\ UNCHANGED <<sessions, messages, v_mode, v_user, v_message,
                   v_session_id, v_session, v_query_type, v_chunks,
                   full_response, v_used_context, v_sources, response, sse>>
    /\ UNCHANGED <<retrVars, classVars, genVars>>
    /\ UNCHANGED ingestVars

\* event_stream: stream_generate raised.
ChatStreamError ==
    /\ vpc = "generating"
    /\ v_mode = "stream"
    /\ gpc = "raised"
    /\ ChatFail("GenerationError")
    /\ trace' = Append(trace, Event("generate_raise", v_message))
    /\ UNCHANGED <<sessions, messages, v_mode, v_user, v_message,
                   v_session_id, v_session, v_query_type, v_chunks,
                   full_response, v_used_context, v_sources>>
    /\ UNCHANGED <<retrVars, classVars, genVars>>
    /\ UNCHANGED ingestVars

\* An event_stream that saves what it has in a finally clause.
ChatAbortSavesPartial ==
    /\ v_mode = "stream"
    /\ \/ vpc = "generating" /\ gpc \in {"open", "streaming"}
       \/ vpc = "persist"
    /\ vpc' = "aborted"
    /\ gpc' = IF gpc \in {"open", "streaming"} THEN "abandoned" ELSE gpc
    /\ messages' = Append(messages, AssistantMessage)
    /\ UNCHANGED <<g_question, g_chunks, g_use_context, g_system_prompt,
                   g_user_message, g_upstream, g_handle, g_events,
                   g_result>>
    /\ UNCHANGED <<sessions, v_mode, v_user, v_message, v_session_id,
                   v_session, v_query_type, v_chunks, full_response,
                   v_used_context, v_sources, response, sse, trace>>
    /\ UNCHANGED <<retrVars, classVars>>
    /\ UNCHANGED ingestVars

\* The client disconnects while the response streams: the server stops
\* iterating event_stream and closes it where it is suspended (GeneratorExit
\* at its yield, or CancelledError at its await; `except Exception` catches
\* neither).  stream_generate is never resumed and nothing closes the
\* upstream stream.  A save that was under way when the request was
\* cancelled may still complete in its thread.
ChatAbort ==
    /\ v_mode = "stream"
    /\ \/ /\ vpc = "generating"
          /\ gpc \in {"open", "streaming"}
          /\ UNCHANGED messages
       \/ /\ vpc = "persist"
          /\ \/ UNCHANGED messages
             \/ messages' = Append(messages, AssistantMessage)
    /\ vpc' = "aborted"
    /\ gpc' = IF gpc \in {"open", "streaming"} THEN "abandoned" ELSE gpc
    /\ UNCHANGED <<g_question, g_chunks, g_use_context, g_system_prompt,
                   g_user_message, g_upstream, g_handle, g_events,
                   g_result>>
    /\ UNCHANGED <<sessions, v_mode, v_user, v_message, v_session_id,
                   v_session, v_query_type, v_chunks, full_response,
                   v_used_context, v_sources, response, sse, trace>>
    /\ UNCHANGED <<retrVars, classVars>>
    /\ UNCHANGED ingestVars

ChatNext ==
    \/ ChatBegin
    \/ ChatCallClassify
    \/ Classify
    \/ ChatAfterClassify
    \/ RetrieveEmbed
    \/ RetrieveEmbedFails
    \/ RetrieveSearch
    \/ RetrieveSearchFails
    \/ ChatAfterRetrieve
    \/ GenerateReturn
    \/ GenerateRaise
    \/ StreamOpen
    \/ StreamChunk
    \/ StreamEnd
    \/ StreamRaise
    \/ ChatAfterGenerate
    \/ ChatStreamToken
    \/ ChatStreamDone
    \/ ChatStreamPersist
    \/ ChatStreamError
    \/ ChatAbort

(***************************************************************************)
(* Image ingestion: src/backend/rag/services/ocr_service.py and            *)
(* src/backend/rag/services/image_processor.py.  text_coverage and        *)
(* box_density are in hundredths, confidence in points of 0..100.          *)
(***************************************************************************)

\* The values a threshold setting may have, and the levels a signal may
\* take: around each threshold value, and the ends of the range.
ThresholdLevels == {10, 50}
SignalLevels == {0, 9, 10, 11, 49, 50, 51, 100}

OcrSettings ==
    [OCR_TEXT_COVERAGE_THRESHOLD : ThresholdLevels,
     OCR_BOX_DENSITY_THRESHOLD : ThresholdLevels,
     OCR_CONFIDENCE_THRESHOLD : ThresholdLevels]

\* Texts as sequences of characters; "n" stands for a newline.
TextWhitespace == {" ", "n"}

\* `pytesseract.image_to_string(image).strip()`: stripped OCR texts.
OcrTexts == {<<>>, <<"o">>, <<"o", " ", "o">>}

\* `description.strip()`: stripped vision descriptions.
VisionTexts == {<<>>, <<"v">>, <<"v", "n", "v">>}

ImageUrls == {"url1"}

\* str.strip() of a text.
RECURSIVE LStrip(_)
LStrip(t) ==
    IF t # <<>> /\ t[1] \in TextWhitespace THEN LStrip(Tail(t)) ELSE t

RECURSIVE RStrip(_)
RStrip(t) ==
    IF t # <<>> /\ t[Len(t)] \in TextWhitespace
    THEN RStrip(SubSeq(t, 1, Len(t) - 1))
    ELSE t

PyStrip(t) == RStrip(LStrip(t))

\* A decision rule that also escalates a signal exactly at its threshold.
NeedsVisionApiInclusive(text_coverage, box_density, confidence) ==
    \/ text_coverage <= settings.OCR_TEXT_COVERAGE_THRESHOLD
    \/ box_density <= settings.OCR_BOX_DENSITY_THRESHOLD
    \/ confidence <= settings.OCR_CONFIDENCE_THRESHOLD

\* OCRService._needs_vision_api.
NeedsVisionApi(text_coverage, box_density, confidence) ==
    \/ text_coverage < settings.OCR_TEXT_COVERAGE_THRESHOLD
    \/ box_density < settings.OCR_BOX_DENSITY_THRESHOLD
    \/ confidence < settings.OCR_CONFIDENCE_THRESHOLD

NoOcrResult ==
    [text |-> <<>>, confidence |-> 0, text_coverage |-> 0, box_density |-> 0,
     needs_vision |-> FALSE, ran |-> FALSE]

\* The settings of a run that ingests no image.
SomeSettings == CHOOSE x \in OcrSettings : TRUE

ImageIdle ==
    /\ settings = SomeSettings
    /\ ocr_result = NoOcrResult
    /\ vision_calls = <<>>
    /\ vision_description = <<>>
    /\ final_text = <<>>
    /\ ipc = "idle"

\* OCRService.extract_text_and_signals: the text and the three signals the
\* OCR engine's output gives, and the decision.
ExtractTextAndSignals ==
    /\ ipc = "ocr"
    /\ \E t \in OcrTexts, confidence \in SignalLevels,
          text_coverage \in SignalLevels, box_density \in SignalLevels :
          ocr_result' =
              [text |-> t, confidence |-> confidence,
               text_coverage |-> text_coverage, box_density |-> box_density,
               needs_vision |->
                   NeedsVisionApi(text_coverage, box_density, confidence),
               ran |-> TRUE]
    /\ ipc' = "decide"
    /\ UNCHANGED <<settings, vision_calls, vision_description, final_text>>
    /\ UNCHANGED imageOthers

\* The image cannot be opened or the OCR engine fails: process_image raises.
ExtractRaises ==
    /\ ipc = "ocr"
    /\ ipc' = "raised"
    /\ UNCHANGED <<settings, ocr_result, vision_calls, vision_description,
                   final_text>>
    /\ UNCHANGED imageOthers

\* process_image when needs_vision is false: the OCR text is returned.
ProcessImageOcrOnly ==
    /\ ipc = "decide"
    /\ ~ocr_result.needs_vision
    /\ final_text' = ocr_result.text
    /\ ipc' = "done"
    /\ UNCHANGED <<settings, ocr_result, vision_calls, vision_description>>
    /\ UNCHANGED imageOthers

\* A merge that puts the OCR text first.
ProcessImageVisionOcrFirst(cloudinary_url) ==
    /\ ipc = "decide"
    /\ ocr_result.needs_vision
    /\ vision_calls' = Append(vision_calls, cloudinary_url)
    /\ \E description \in VisionTexts :
          /\ vision_description' = description
          /\ final_text' =
                 IF description # <<>>
                 THEN PyStrip(ocr_result.text \o <<"n", "n">> \o description)
                 ELSE ocr_result.text
    /\ ipc' = "done"
    /\ UNCHANGED <<settings, ocr_result>>
    /\ UNCHANGED imageOthers

\* process_image when needs_vision is true: describe_image is called and its
\* description, if there is one, is put before the OCR text.
ProcessImageVision(cloudinary_url) ==
    /\ ipc = "decide"
    /\ ocr_result.needs_vision
    /\ vision_calls' = Append(vision_calls, cloudinary_url)
    /\ \E description \in VisionTexts :
          /\ vision_description' = description
          /\ final_text' =
                 IF description # <<>>
                 THEN PyStrip(description \o <<"n", "n">> \o ocr_result.text)
                 ELSE ocr_result.text
    /\ ipc' = "done"
    /\ UNCHANGED <<settings, ocr_result>>
    /\ UNCHANGED imageOthers

\* process_image when describe_image raises.
ProcessImageVisionRaises(cloudinary_url) ==
    /\ ipc = "decide"
    /\ ocr_result.needs_vision
    /\ vision_calls' = Append(vision_calls, cloudinary_url)
    /\ ipc' = "raised"
    /\ UNCHANGED <<settings, ocr_result, vision_description, final_text>>
    /\ UNCHANGED imageOthers

ImageNext ==
    \/ ExtractTextAndSignals
    \/ ExtractRaises
    \/ ProcessImageOcrOnly
    \/ \E url \in ImageUrls : ProcessImageVision(url)
    \/ \E url \in ImageUrls : ProcessImageVisionRaises(url)

(***************************************************************************)
(* Assets: DocumentUploadView.post and AssetDeleteView.delete (views.py),  *)
(* CloudinaryService, EmbeddingsService.generate_embeddings.               *)
(***************************************************************************)

\* The longest uploaded text, in pieces.
MaxUploadLen == 2

\* ALLOWED_EXTENSIONS of document_processor.py.
ALLOWED_EXTENSIONS == {"pdf", "docx"}

\* The extensions of the uploaded file names.
Extensions == {"pdf", "docx", "png", "txt"}

\* ImageProcessor.is_supported_image.
IsSupportedImage(ext) == ext \in {"png", "jpg", "jpeg", "gif", "webp"}

IsSupported(ext) == ext \in ALLOWED_EXTENSIONS

\* A text is given by its pieces: " " is a stretch of whitespace, every
\* other piece a stretch of text that fills one chunk window.
UploadContents == {"d1", "d2"}

UploadTexts ==
    UNION {[1..n -> UploadContents \cup {" "}] : n \in 0..MaxUploadLen}

\* `not text or not text.strip()`.
BlankText(t) == \A i \in 1..Len(t) : t[i] = " "

\* TextChunker.chunk_text with its default sizes, on a text given by its
\* pieces: no chunk for a blank text, one chunk per window otherwise.
UploadChunkText(t) == IF BlankText(t) THEN <<>> ELSE SelectSeq(t, LAMBDA piece : piece # " ")

\* A request without a file, which the serializer rejects.
NoFile == [has_file |-> FALSE, ext |-> "", text |-> <<>>]

\* The uploaded files: the extension of the name and the text the file
\* holds (for an image, the text process_image finds in it).
UploadFiles ==
    {NoFile} \cup
    {[has_file |-> TRUE, ext |-> e, text |-> t] :
        e \in Extensions, t \in UploadTexts}

\* An embedding model that returns the vectors in reverse order.
GenerateEmbeddingsReversed(texts) ==
    [i \in 1..Len(texts) |-> GenerateEmbedding(texts[Len(texts) + 1 - i])]

\* EmbeddingsService.generate_embeddings: model.encode on the list, one
\* vector per text, in the order of the texts.
GenerateEmbeddings(texts) ==
    [i \in 1..Len(texts) |-> GenerateEmbedding(texts[i])]

\* The id (uuid4) and the Cloudinary public id the upload request gets.
NewAssetId == "asset-new"

NewPublicId == "file-new"

\* An Asset row (asset_type, cloudinary_url, original_filename, created_at
\* left out).
AssetRow(id, user, public_id) ==
    [id |-> id, user |-> user, public_id |-> public_id]

\* The Asset rows the chunk rows of a table reference, each with its file.
AssetRowsOf(table) ==
    {AssetRow(r.asset_id, r.user_id, r.asset_id \o "-file") :
        r \in {x \in table : x.asset_id # NULL}}

\* A chunk object that carries the id of another user.
UploadedRowOtherTenant(user, asset_id, doc_type, i, chunk_text, embedding) ==
    [id |-> asset_id \o "-" \o ToString(i),
     user_id |-> CHOOSE u \in Users : u # user,
     asset_id |-> asset_id, doc_type |-> doc_type, content |-> chunk_text,
     embedding |-> embedding]

\* The i-th DocumentChunk of chunk_objects (document_id, source left out).
UploadedRow(user, asset_id, doc_type, i, chunk_text, embedding) ==
    [id |-> asset_id \o "-" \o ToString(i), user_id |-> user,
     asset_id |-> asset_id, doc_type |-> doc_type, content |-> chunk_text,
     embedding |-> embedding]

\* `zip(chunks, embeddings)`: pairs up to the shorter list.
ChunkObjects(user, asset_id, doc_type, chunk_list, embeddings) ==
    {UploadedRow(user, asset_id, doc_type, i, chunk_list[i], embeddings[i]) :
        i \in 1..Min(Len(chunk_list), Len(embeddings))}

\* A delete that leaves the chunk rows of the asset in the table.
CascadeNone(table, asset_id) == table

\* `asset.delete()`: the row goes, and on_delete=CASCADE takes the chunk
\* rows that reference it.
CascadeChunks(table, asset_id) == {r \in table : r.asset_id # asset_id}

\* CloudinaryService.delete: the file is destroyed when the service answers
\* 'ok'; any other answer, or an exception, returns False.
CloudinaryDeleteResult(files, public_id, ok) == ok /\ public_id \in files

CloudinaryDelete(files, public_id, ok) ==
    IF ok THEN files \ {public_id} ELSE files

NoUploadResponse == [status |-> 0, chunks_created |-> 0]

UploadResponse(status, n) == [status |-> status, chunks_created |-> n]

NoAsset == AssetRow(NULL, NULL, NULL)

\* The tables that go with the chunk table: every referenced asset has its
\* row and its file.
AssetTables ==
    /\ assets = AssetRowsOf(store)
    /\ cloud = {a.public_id : a \in assets}

\* No upload and no delete request.
AssetIdle ==
    /\ AssetTables
    /\ u_user = NULL
    /\ u_file = NoFile
    /\ u_public_id = NULL
    /\ u_asset = NULL
    /\ u_text = <<>>
    /\ u_doc_type = NULL
    /\ u_chunks = <<>>
    /\ u_embeddings = <<>>
    /\ u_response = NoUploadResponse
    /\ upc = "idle"
    /\ d_user = NULL
    /\ d_asset_id = NULL
    /\ d_asset = NoAsset
    /\ d_response = [status |-> 0]
    /\ dpc = "idle"

\* The serializer rejects a request without a file: 400.
UploadInvalid ==
    /\ upc = "start"
    /\ ~u_file.has_file
    /\ u_response' = UploadResponse(400, 0)
    /\ upc' = "done"
    /\ UNCHANGED <<u_user, u_file, u_public_id, u_asset, u_text, u_doc_type,
                   u_chunks, u_embeddings>>
    /\ UNCHANGED <<store, assets, cloud, deleteVars, assetOthers>>

\* Neither an image nor a document: 400.
UploadUnsupported ==
    /\ upc = "start"
    /\ u_file.has_file
    /\ ~(IsSupportedImage(u_file.ext) \/ IsSupported(u_file.ext))
    /\ u_response' = UploadResponse(400, 0)
    /\ upc' = "done"
    /\ UNCHANGED <<u_user, u_file, u_public_id, u_asset, u_text, u_doc_type,
                   u_chunks, u_embeddings>>
    /\ UNCHANGED <<store, assets, cloud, deleteVars, assetOthers>>

\* The file is read and CloudinaryService.upload stores it.
UploadToCloudinary ==
    /\ upc = "start"
    /\ u_file.has_file
    /\ IsSupportedImage(u_file.ext) \/ IsSupported(u_file.ext)
    /\ cloud' = cloud \cup {NewPublicId}
    /\ u_public_id' = NewPublicId
    /\ upc' = "create"
    /\ UNCHANGED <<u_user, u_file, u_asset, u_text, u_doc_type, u_chunks,
                   u_embeddings, u_response>>
    /\ UNCHANGED <<store, assets, deleteVars, assetOthers>>

\* Reading the file or CloudinaryService.upload raises: nothing is stored
\* and cloudinary_public_id stays unbound.
UploadToCloudinaryRaises ==
    /\ upc = "start"
    /\ u_file.has_file
    /\ IsSupportedImage(u_file.ext) \/ IsSupported(u_file.ext)
    /\ upc' = "except"
    /\ UNCHANGED <<u_user, u_file, u_public_id, u_asset, u_text, u_doc_type,
                   u_chunks, u_embeddings, u_response>>
    /\ UNCHANGED <<store, assets, cloud, deleteVars, assetOthers>>

\* `Asset.objects.create(user=user, ...)`.
UploadCreateAsset ==
    /\ upc = "create"
    /\ assets' = assets \cup {AssetRow(NewAssetId, u_user, u_public_id)}
    /\ u_asset' = NewAssetId
    /\ upc' = "extract"
    /\ UNCHANGED <<u_user, u_file, u_public_id, u_text, u_doc_type, u_chunks,
                   u_embeddings, u_response>>
    /\ UNCHANGED <<store, cloud, deleteVars, assetOthers>>

\* `ImageProcessor.process_image(file_content, cloudinary_url)` returns the
\* text of the image, which may be empty.
UploadProcessImage ==
    /\ upc = "extract"
    /\ IsSupportedImage(u_file.ext)
    /\ u_text' = u_file.text
    /\ u_doc_type' = "image"
    /\ upc' = "chunk"
    /\ UNCHANGED <<u_user, u_file, u_public_id, u_asset, u_chunks,
                   u_embeddings, u_response>>
    /\ UNCHANGED <<store, assets, cloud, deleteVars, assetOthers>>

\* DocumentProcessor.extract_text returns the text of a document that has
\* some, and its type.
UploadExtractText ==
    /\ upc = "extract"
    /\ ~IsSupportedImage(u_file.ext)
    /\ ~BlankText(u_file.text)
    /\ u_text' = u_file.text
    /\ u_doc_type' = u_file.ext
    /\ upc' = "chunk"
    /\ UNCHANGED <<u_user, u_file, u_public_id, u_asset, u_chunks,
                   u_embeddings, u_response>>
    /\ UNCHANGED <<store, assets, cloud, deleteVars, assetOthers>>

\* DocumentProcessor.extract_text raises DocumentProcessorError: always for
\* a document without text, and whenever the parser fails.
UploadExtractTextRaises ==
    /\ upc = "extract"
    /\ ~IsSupportedImage(u_file.ext)
    /\ upc' = "except_doc"
    /\ UNCHANGED <<u_user, u_file, u_public_id, u_asset, u_text, u_doc_type,
                   u_chunks, u_embeddings, u_response>>
    /\ UNCHANGED <<store, assets, cloud, deleteVars, assetOthers>>

\* `chunks = TextChunker.chunk_text(text)` and the test `if not chunks`.
UploadChunk ==
    /\ upc = "chunk"
    /\ u_chunks' = UploadChunkText(u_text)
    /\ upc' = IF u_chunks' = <<>> THEN "no_content" ELSE "embed"
    /\ UNCHANGED <<u_user, u_file, u_public_id, u_asset, u_text, u_doc_type,
                   u_embeddings, u_response>>
    /\ UNCHANGED <<store, assets, cloud, deleteVars, assetOthers>>

\* A no-content branch that answers with a server error.
UploadNoContentServerError ==
    /\ upc = "no_content"
    /\ assets' = {a \in assets : a.id # u_asset}
    /\ store' = CascadeChunks(store, u_asset)
    /\ u_response' = UploadResponse(500, 0)
    /\ upc' = "done"
    /\ UNCHANGED <<u_user, u_file, u_public_id, u_asset, u_text, u_doc_type,
                   u_chunks, u_embeddings>>
    /\ UNCHANGED <<cloud, deleteVars, assetOthers>>

\* No chunks: `asset.delete()` and 400.
UploadNoContent ==
    /\ upc = "no_content"
    /\ assets' = {a \in assets : a.id # u_asset}
    /\ store' = CascadeChunks(store, u_asset)
    /\ u_response' = UploadResponse(400, 0)
    /\ upc' = "done"
    /\ UNCHANGED <<u_user, u_file, u_public_id, u_asset, u_text, u_doc_type,
                   u_chunks, u_embeddings>>
    /\ UNCHANGED <<cloud, deleteVars, assetOthers>>

\* `embeddings = await EmbeddingsService.generate_embeddings(chunks)`.
UploadEmbed ==
    /\ upc = "embed"
    /\ u_embeddings' = GenerateEmbeddings(u_chunks)
    /\ upc' = "store"
    /\ UNCHANGED <<u_user, u_file, u_public_id, u_asset, u_text, u_doc_type,
                   u_chunks, u_response>>
    /\ UNCHANGED <<store, assets, cloud, deleteVars, assetOthers>>

\* bulk_create of the chunk objects, which the foreign key allows while the
\* asset row is there, and the 201 response.
UploadBulkCreate ==
    /\ upc = "store"
    /\ \E a \in assets : a.id = u_asset
    /\ store' = store \cup ChunkObjects(u_user, u_asset, u_doc_type,
                                        u_chunks, u_embeddings)
    /\ u_response' = UploadResponse(201, Len(u_chunks))
    /\ upc' = "done"
    /\ UNCHANGED <<u_user, u_file, u_public_id, u_asset, u_text, u_doc_type,
                   u_chunks, u_embeddings>>
    /\ UNCHANGED <<assets, cloud, deleteVars, assetOthers>>

\* Any other call inside the try block raises (Asset create, OCR or vision,
\* chunking, embedding, bulk_create): control goes to `except Exception`.
UploadRaises ==
    /\ \/ upc \in {"create", "chunk", "embed", "store"}
       \/ upc = "extract" /\ IsSupportedImage(u_file.ext)
    /\ upc' = "except"
    /\ UNCHANGED <<u_user, u_file, u_public_id, u_asset, u_text, u_doc_type,
                   u_chunks, u_embeddings, u_response>>
    /\ UNCHANGED <<store, assets, cloud, deleteVars, assetOthers>>

\* `except DocumentProcessorError`: CloudinaryService.delete, then 400.
UploadExceptDocumentError ==
    /\ upc = "except_doc"
    /\ \E ok \in BOOLEAN :
          cloud' = IF u_public_id # NULL
                   THEN CloudinaryDelete(cloud, u_public_id, ok)
                   ELSE cloud
    /\ u_response' = UploadResponse(400, 0)
    /\ upc' = "done"
    /\ UNCHANGED <<u_user, u_file, u_public_id, u_asset, u_text, u_doc_type,
                   u_chunks, u_embeddings>>
    /\ UNCHANGED <<store, assets, deleteVars, assetOthers>>

\* `except Exception`: CloudinaryService.delete if the upload had returned,
\* then 500.
UploadExcept ==
    /\ upc = "except"
    /\ \E ok \in BOOLEAN :
          cloud' = IF u_public_id # NULL
                   THEN CloudinaryDelete(cloud, u_public_id, ok)
                   ELSE cloud
    /\ u_response' = UploadResponse(500, 0)
    /\ upc' = "done"
    /\ UNCHANGED <<u_user, u_file, u_public_id, u_asset, u_text, u_doc_type,
                   u_chunks, u_embeddings>>
    /\ UNCHANGED <<store, assets, deleteVars, assetOthers>>

\* A lookup by id alone.
FindAssetAnyUser(id, user) == {a \in assets : a.id = id}

\* `Asset.objects.filter(id=asset_id, user=user).first()`.
FindAsset(id, user) == {a \in assets : a.id = id /\ a.user = user}

\* No asset of that id owned by the requester: 404.
DeleteNotFound ==
    /\ dpc = "start"
    /\ FindAsset(d_asset_id, d_user) = {}
    /\ d_response' = [status |-> 404]
    /\ dpc' = "done"
    /\ UNCHANGED <<d_user, d_asset_id, d_asset>>
    /\ UNCHANGED <<store, assets, cloud, uploadVars, assetOthers>>

DeleteFound ==
    /\ dpc = "start"
    /\ FindAsset(d_asset_id, d_user) # {}
    /\ d_asset' = CHOOSE a \in FindAsset(d_asset_id, d_user) : TRUE
    /\ dpc' = "cloudinary"
    /\ UNCHANGED <<d_user, d_asset_id, d_response>>
    /\ UNCHANGED <<store, assets, cloud, uploadVars, assetOthers>>

\* `CloudinaryService.delete(asset.cloudinary_public_id)`, and 500 when it
\* returns False.
DeleteCloudinary ==
    /\ dpc = "cloudinary"
    /\ \E ok \in BOOLEAN :
          /\ cloud' = CloudinaryDelete(cloud, d_asset.public_id, ok)
          /\ IF CloudinaryDeleteResult(cloud, d_asset.public_id, ok)
             THEN /\ dpc' = "delete"
                  /\ UNCHANGED d_response
             ELSE /\ d_response' = [status |-> 500]
                  /\ dpc' = "done"
    /\ UNCHANGED <<d_user, d_asset_id, d_asset>>
    /\ UNCHANGED <<store, assets, uploadVars, assetOthers>>

\* `asset.delete()`, which cascades to the chunk rows, and 200.
DeleteAsset ==
    /\ dpc = "delete"
    /\ assets' = {a \in assets : a.id # d_asset.id}
    /\ store' = CascadeChunks(store, d_asset.id)
    /\ d_response' = [status |-> 200]
    /\ dpc' = "done"
    /\ UNCHANGED <<d_user, d_asset_id, d_asset>>
    /\ UNCHANGED <<cloud, uploadVars, assetOthers>>

\* `asset.delete()` raises: `except Exception`, 500.
DeleteRaises ==
    /\ dpc = "delete"
    /\ d_response' = [status |-> 500]
    /\ dpc' = "done"
    /\ UNCHANGED <<d_user, d_asset_id, d_asset>>
    /\ UNCHANGED <<store, assets, cloud, uploadVars, assetOthers>>

IngestNext ==
    \/ UploadInvalid
    \/ UploadUnsupported
    \/ UploadToCloudinary
    \/ UploadToCloudinaryRaises
    \/ UploadCreateAsset
    \/ UploadProcessImage
    \/ UploadExtractText
    \/ UploadExtractTextRaises
    \/ UploadChunk
    \/ UploadNoContent
    \/ UploadEmbed
    \/ UploadBulkCreate
    \/ UploadRaises
    \/ UploadExceptDocumentError
    \/ UploadExcept
    \/ DeleteNotFound
    \/ DeleteFound
    \/ DeleteCloudinary
    \/ DeleteAsset
    \/ DeleteRaises

\* The chunk tables earlier uploads left: every row has its asset.
IngestStores ==
    SUBSET {ChunkRow("A", "d1"), ChunkRow("A", "d2"), ChunkRow("B", "d3")}

\* The asset ids a delete request names.
DeleteTargets == {AssetOf("A", "d1"), AssetOf("B", "d3"), NewAssetId}

UploadInit ==
    /\ u_user \in Users
    /\ u_file \in UploadFiles
    /\ u_public_id = NULL
    /\ u_asset = NULL
    /\ u_text = <<>>
    /\ u_doc_type = NULL
    /\ u_chunks = <<>>
    /\ u_embeddings = <<>>
    /\ u_response = NoUploadResponse
    /\ upc = "start"

DeleteInit ==
    /\ d_user \in Users
    /\ d_asset_id \in DeleteTargets
    /\ d_asset = NoAsset
    /\ d_response = [status |-> 0]
    /\ dpc = "start"

(***************************************************************************)
(* Specifications.                                                         *)
(***************************************************************************)

\* chunk_text applied to every text, chunk_size and chunk_overlap in bounds.
SpecChunkInit ==
    /\ ChunkInit /\ RetrIdle /\ store = {} /\ ClassIdle /\ GenIdle /\ ViewIdle
    /\ ImageIdle /\ AssetIdle
SpecChunk == SpecChunkInit /\ [][ChunkNext]_vars

\* retrieve applied to every store, query, user and top_k in bounds.
SpecRetrieveInit ==
    /\ ChunkIdle
    /\ store \in Stores
    /\ r_query \in Messages
    /\ r_user \in Users
    /\ r_top_k \in 0..MaxTopK
    /\ r_embedding = NULL
    /\ rows = <<>>
    /\ r_chunks = <<>>
    /\ rpc = "embed"
    /\ ClassIdle
    /\ GenIdle
    /\ ViewIdle
    /\ ImageIdle
    /\ AssetIdle
SpecRetrieve == SpecRetrieveInit /\ [][RetrNext]_vars

\* One chat request, batch or streaming, by every user, over every table of
\* text documents, message and session_id in bounds.
SpecChatInit ==
    /\ ChunkIdle
    /\ RetrIdle
    /\ store \in ChatStores
    /\ ClassIdle
    /\ GenIdle
    /\ ViewInit
    /\ ImageIdle
    /\ AssetIdle
Spec == SpecChatInit /\ [][ChatNext]_vars

\* process_image applied to every image (OCR text and signals) and every
\* value of the three threshold settings in bounds.
SpecImageInit ==
    /\ ChunkIdle
    /\ RetrIdle
    /\ store = {}
    /\ ClassIdle
    /\ GenIdle
    /\ ViewIdle
    /\ settings \in OcrSettings
    /\ ocr_result = NoOcrResult
    /\ vision_calls = <<>>
    /\ vision_description = <<>>
    /\ final_text = <<>>
    /\ ipc = "ocr"
    /\ AssetIdle
SpecImage == SpecImageInit /\ [][ImageNext]_vars

\* One upload request and one delete request, interleaved, by every pair of
\* users, over every file and every table in bounds.
SpecIngestInit ==
    /\ ChunkIdle
    /\ RetrIdle
    /\ store \in IngestStores
    /\ ClassIdle
    /\ GenIdle
    /\ ViewIdle
    /\ ImageIdle
    /\ AssetTables
    /\ UploadInit
    /\ DeleteInit
SpecIngest == SpecIngestInit /\ [][IngestNext]_vars

\* The requests of the system as a whole: a chat request, an upload request
\* and a delete request, their steps interleaved in every order.  The chat
\* request is a ChatView request, or a ChatStreamView request that is
\* refused before its event stream starts.
SystemNext ==
    \/ ChatBegin
    \/ ChatCallClassify
    \/ Classify
    \/ ChatAfterClassify
    \/ RetrieveEmbed
    \/ RetrieveEmbedFails
    \/ RetrieveSearch
    \/ RetrieveSearchFails
    \/ ChatAfterRetrieve
    \/ GenerateReturn
    \/ GenerateRaise
    \/ ChatAfterGenerate
    \/ IngestNext

\* The chunk tables of the system runs: user A has an asset that matches
\* the question, user B may have one.
SystemStores ==
    {{ChunkRow("A", "d1")}, {ChunkRow("A", "d1"), ChunkRow("B", "d3")}}

\* The files of the system runs: none, a text file, an image without text,
\* a document without text, and a document of two chunks.
SystemFiles ==
    {NoFile,
     [has_file |-> TRUE, ext |-> "txt", text |-> <<"d1">>],
     [has_file |-> TRUE, ext |-> "png", text |-> <<>>],
     [has_file |-> TRUE, ext |-> "pdf", text |-> <<" ">>],
     [has_file |-> TRUE, ext |-> "pdf", text |-> <<"d2", "d1">>]}

SpecSystemInit ==
    /\ ChunkIdle
    /\ RetrIdle
    /\ store \in SystemStores
    /\ ClassIdle
    /\ GenIdle
    /\ ViewInit
    /\ v_message = "q1"
    /\ v_mode = "stream" =>
          (v_session_id # NULL /\ FindSession(v_session_id, v_user) = {})
    /\ ImageIdle
    /\ AssetTables
    /\ UploadInit
    /\ u_file \in SystemFiles
    /\ DeleteInit
SpecSystem == SpecSystemInit /\ [][SystemNext]_vars

(***************************************************************************)
(* Properties of chunk_text (checked under SpecChunk).                     *)
(***************************************************************************)

\* C4: chunk_text terminates for every text and chunk_size >= 1, whatever the
\* overlap: every iteration of the window loop that stays in the loop moves
\* `start` strictly forward, so the loop exits.
C4_LoopMakesProgress ==
    [][(cpc = "loop" /\ cpc' = "loop") => start' > start]_vars

\* C5 as stated: every text of at most chunk_size tokens comes back as
\* exactly one chunk equal to the text.
C5_Original ==
    (cpc = "done" /\ Len(Encode(text)) <= chunk_size) => chunks = <<text>>

\* C5 amended: every text with a non-whitespace character and at most
\* chunk_size tokens comes back as exactly one chunk equal to the text.
C5_SingleChunk ==
    (cpc = "done" /\ ~StripIsEmpty(text) /\ Len(Encode(text)) <= chunk_size)
        => chunks = <<text>>

C5_Witness ==
    /\ cpc = "done"
    /\ ~StripIsEmpty(text)
    /\ Len(Encode(text)) = chunk_size
    /\ Len(text) > chunk_size
    /\ chunk_overlap >= 1
    /\ chunks = <<text>>

\* The case C6 is about: a text longer than chunk_size tokens, a proper
\* overlap, the loop over.
C6_Case ==
    /\ cpc = "done"
    /\ ~StripIsEmpty(text)
    /\ Len(tokens) > chunk_size
    /\ chunk_overlap < chunk_size

LastTokens(w, k) == SubSeq(w, Len(w) - k + 1, Len(w))
FirstTokens(w, k) == SubSeq(w, 1, k)

\* C6 as stated: every two consecutive chunks overlap by exactly the
\* configured overlap: the last `overlap` tokens of chunk k are the first
\* `overlap` tokens of chunk k+1.
C6_ConsecutiveOverlap ==
    C6_Case =>
        \A k \in 1..(Len(chunk_windows) - 1) :
            /\ Len(chunk_windows[k]) >= chunk_overlap
            /\ Len(chunk_windows[k + 1]) >= chunk_overlap
            /\ LastTokens(chunk_windows[k], chunk_overlap)
                 = FirstTokens(chunk_windows[k + 1], chunk_overlap)

\* What the window loop does produce in that case: chunk k is the decoded
\* token window that starts at (k-1) * (chunk_size - overlap) and is
\* chunk_size wide, cut off at the end of the token sequence; a chunk of the
\* full width overlaps its successor by exactly `overlap` tokens, and the
\* successor of a cut-off chunk is a proper suffix of it, shorter than
\* `overlap`.
ChunkWindowsShape ==
    C6_Case =>
        LET stride == chunk_size - chunk_overlap
            n == Len(chunk_windows)
        IN  /\ Len(chunks) = n
            /\ n >= 2
            /\ (n - 1) * stride < Len(tokens)
            /\ n * stride >= Len(tokens)
            /\ \A k \in 1..n :
                   /\ chunk_windows[k]
                        = Slice(tokens, (k - 1) * stride,
                                (k - 1) * stride + chunk_size)
                   /\ chunks[k] = Decode(chunk_windows[k])
            /\ \A k \in 1..(n - 1) :
                   LET w == chunk_windows[k]
                       v == chunk_windows[k + 1]
                   IN  IF Len(w) = chunk_size
                       THEN /\ Len(v) >= chunk_overlap
                            /\ LastTokens(w, chunk_overlap)
                                 = FirstTokens(v, chunk_overlap)
                       ELSE /\ Len(v) < chunk_overlap
                            /\ Len(v) < Len(w)
                            /\ v = LastTokens(w, Len(v))



(***************************************************************************)
(* Properties of Retriever.retrieve (checked under SpecRetrieve).          *)
(***************************************************************************)

\* The stored row a result row was read from.
StoredRow(id) == CHOOSE r \in store : r.id = id

\* The similarity of a stored row to the query of the call, from the row's
\* and the query's vectors.
QuerySimilarity(r) ==
    100 - CosineDistance(r.embedding, GenerateEmbedding(r_query))

\* The rows of the calling tenant that pass the threshold.
EligibleRows ==
    {r \in store : r.user_id = r_user /\ QuerySimilarity(r) >= 25}

ReturnedIds == {rows[i].id : i \in 1..Len(rows)}

\* C1: every chunk retrieve(query, user_id = A) returns is a stored row whose
\* user_id is A; no row of another tenant is ever returned.
C1_RetrievalIsolation ==
    rpc = "returned" =>
        /\ Len(r_chunks) = Len(rows)
        /\ \A i \in 1..Len(rows) :
              /\ \E r \in store : r.id = rows[i].id
              /\ StoredRow(rows[i].id).user_id = r_user
              /\ r_chunks[i].content = StoredRow(rows[i].id).content
        /\ \A r \in store : r.user_id # r_user => r.id \notin ReturnedIds

\* A call that returned chunks while another tenant held a row similar enough
\* to pass the threshold, with room for it under top_k.
C1_Witness ==
    /\ rpc = "returned"
    /\ Len(r_chunks) >= 1
    /\ Len(r_chunks) < r_top_k
    /\ \E r \in store : r.user_id # r_user /\ QuerySimilarity(r) >= 25

\* C2: no returned chunk has similarity < 0.25, the similarity being
\* 1 - cosine distance of the stored row to the query.
C2_RetrievalThreshold ==
    rpc = "returned" =>
        \A i \in 1..Len(r_chunks) :
            /\ r_chunks[i].similarity >= 25
            /\ r_chunks[i].similarity = QuerySimilarity(StoredRow(rows[i].id))

\* A call that returned a chunk exactly at the threshold and left out a row
\* of the same tenant just below it, with room for it under top_k.
C2_Witness ==
    /\ rpc = "returned"
    /\ \E i \in 1..Len(r_chunks) : r_chunks[i].similarity = 25
    /\ Len(r_chunks) < r_top_k
    /\ \E r \in store : r.user_id = r_user /\ QuerySimilarity(r) = 24

\* C3: at most top_k chunks, sorted by similarity descending, and they are
\* the top_k most similar of the tenant's rows that pass the threshold.
C3_TopK ==
    rpc = "returned" =>
        /\ Len(r_chunks) <= r_top_k
        /\ Len(r_chunks) = Min(r_top_k, Cardinality(EligibleRows))
        /\ Cardinality(ReturnedIds) = Len(r_chunks)
        /\ \A i \in 1..Len(rows) : StoredRow(rows[i].id) \in EligibleRows
        /\ \A i, j \in 1..Len(r_chunks) :
              i < j => r_chunks[i].similarity >= r_chunks[j].similarity
        /\ \A r \in EligibleRows :
              r.id \notin ReturnedIds =>
                  \A i \in 1..Len(r_chunks) :
                      r_chunks[i].similarity >= QuerySimilarity(r)

\* A call cut by top_k: more eligible rows than top_k, two chunks of
\* different similarity returned, a less similar eligible row left out.
C3_Witness ==
    /\ rpc = "returned"
    /\ r_top_k = 2
    /\ Cardinality(EligibleRows) = 3
    /\ Len(r_chunks) = 2
    /\ r_chunks[1].similarity > r_chunks[2].similarity
    /\ \E r \in EligibleRows :
          r.id \notin ReturnedIds /\ QuerySimilarity(r) < r_chunks[2].similarity


(***************************************************************************)
(* Properties of QueryClassifier.classify (checked under Spec).            *)
(***************************************************************************)

ClassifyFinished == qpc \in {"returned", "raised"}

\* The JSON text complete_json parses for a model answer.
ParsedText(resp) == IF resp.content \in {NULL, ""} THEN "{}" ELSE resp.content

\* The model answered with JSON that names one of the three types.
WellFormed(resp) ==
    LET parsed == JsonLoads(ParsedText(resp))
    IN  /\ parsed.ok
        /\ parsed.value.t = "dict"
        /\ "query_type" \in DOMAIN parsed.value.v
        /\ parsed.value.v["query_type"].t = "str"
        /\ parsed.value.v["query_type"].v \in QueryTypes

\* The model answered with JSON that is not of that form: the field missing,
\* null, in the wrong case, another value, or no object at all.
Malformed(resp) ==
    /\ resp.api = "ok"
    /\ JsonLoads(ParsedText(resp)).ok
    /\ ~WellFormed(resp)

\* C7: for any malformed or unexpected oracle output classify returns
\* GENERAL, never PROFILE_DEPENDENT or HYBRID.
C7_MalformedGivesGeneral ==
    (ClassifyFinished /\ Malformed(q_response))
        => (qpc = "returned" /\ q_result = "GENERAL")

\* C8: if the oracle call raises, or its output fails to parse, classify
\* returns GENERAL as a value; it never raises to its caller.
C8_FailureGivesGeneral ==
    (ClassifyFinished
        /\ (q_response.api = "error" \/ ~JsonLoads(ParsedText(q_response)).ok))
        => (qpc = "returned" /\ q_result = "GENERAL")

(***************************************************************************)
(* Properties of one chat request (checked under Spec).                    *)
(***************************************************************************)

RetrievalTypes == {"PROFILE_DEPENDENT", "HYBRID"}

\* C9: within one chat request, batch or streaming, the stages run strictly
\* in sequence classify -> (retrieve if needed) -> generate: retrieval is
\* started only after classification has returned, and exactly when the type
\* is PROFILE_DEPENDENT or HYBRID; generation is started only after
\* classification and any retrieval have completed.
C9_StagesInSequence ==
    LET n == Len(trace)
    IN  /\ n >= 1 => trace[1].ev = "classify_start"
        /\ \A i \in 1..n :
              /\ trace[i].ev = "classify_start" => i = 1
              /\ trace[i].ev \in {"classify_return", "classify_raise"} => i = 2
              /\ trace[i].ev = "classify_raise" => n = 2
              /\ trace[i].ev = "classify_return" =>
                    /\ n >= 3
                    /\ trace[3].ev = IF trace[2].arg \in RetrievalTypes
                                     THEN "retrieve_start"
                                     ELSE "generate_start"
              /\ trace[i].ev = "retrieve_start" =>
                    /\ i = 3
                    /\ trace[2].ev = "classify_return"
                    /\ trace[2].arg \in RetrievalTypes
              /\ trace[i].ev \in {"retrieve_return", "retrieve_raise"} =>
                    /\ i = 4
                    /\ trace[3].ev = "retrieve_start"
              /\ trace[i].ev = "retrieve_raise" => n = 4
              /\ trace[i].ev = "generate_start" =>
                    \/ /\ i = 3
                       /\ trace[2].ev = "classify_return"
                       /\ trace[2].arg = "GENERAL"
                    \/ /\ i = 5
                       /\ trace[4].ev = "retrieve_return"
              /\ trace[i].ev \in {"generate_return", "generate_raise"} =>
                    /\ i = n
                    /\ trace[i - 1].ev = "generate_start"
        \* the components themselves: the retriever runs only once classify
        \* has returned a retrieval type, the generator only once classify
        \* and the retriever are through, with the chunks they produced
        /\ qpc \in {"call", "returned", "raised"} =>
              (rpc = "idle" /\ gpc = "idle")
        /\ rpc # "idle" =>
              (qpc = "done" /\ v_query_type \in RetrievalTypes)
        /\ rpc \in {"embed", "search", "raised"} => gpc = "idle"
        /\ gpc # "idle" =>
              /\ qpc = "done"
              /\ \/ (v_query_type = "GENERAL" /\ rpc = "idle"
                        /\ g_chunks = NoneList)
                 \/ (v_query_type \in RetrievalTypes /\ rpc = "returned"
                        /\ g_chunks = ListOf(r_chunks))

\* A streaming request that went through all three stages and one, batch or
\* streaming, that skipped retrieval are both checked by the same formula;
\* this is the first, finished.
C9_Witness ==
    /\ vpc = "done"
    /\ v_mode = "stream"
    /\ Len(trace) = 6
    /\ trace[2].arg = "HYBRID"
    /\ trace[3].ev = "retrieve_start"
    /\ trace[6].ev = "generate_return"
    /\ Len(r_chunks) >= 1

ChunksGiven(chunk_opt) == ~chunk_opt.is_none /\ Len(chunk_opt.items) > 0

\* The done events stream_generate has yielded.
DoneEvents == {i \in 1..Len(g_events) : g_events[i].type = "done"}

\* C10: in generate and in stream_generate, used_context is true iff chunks
\* is non-null and non-empty, and sources is non-null iff used_context is
\* true.
C10_ContextGating ==
    /\ (v_mode = "batch" /\ gpc = "returned") =>
          /\ g_result.used_context = ChunksGiven(g_chunks)
          /\ (~g_result.sources.is_none) = g_result.used_context
    /\ \A i \in DoneEvents :
          /\ g_events[i].used_context = ChunksGiven(g_chunks)
          /\ (~g_events[i].sources.is_none) = g_events[i].used_context

\* The stream_generate of a request whose retrieval found nothing has
\* yielded its done event: chunks is an empty list, not None.
C10_Witness ==
    /\ v_mode = "stream"
    /\ gpc = "yielded_done"
    /\ ~g_chunks.is_none
    /\ g_chunks.items = <<>>
    /\ DoneEvents # {}

(***************************************************************************)
(* Properties of the generator's sources and events (checked under Spec).  *)
(***************************************************************************)

\* The source lists the generator has produced: the one of the returned
\* GeneratedAnswer and the one of each done event.
ProducedSources ==
    (IF v_mode = "batch" /\ gpc = "returned" THEN {g_result.sources} ELSE {})
        \cup {g_events[i].sources : i \in DoneEvents}

\* C11: when chunks is non-empty, sources has at most 3 entries and is the
\* first min(3, n) chunks in retrieval order (the most similar ones), order
\* preserved; each excerpt is the first 100 characters of the chunk content
\* and asset_id is the chunk's asset id, or "unknown" when it has none.
C11_SourcesTopThree ==
    ChunksGiven(g_chunks) =>
        \A src \in ProducedSources :
            LET given == g_chunks.items
                n == Len(given)
            IN  /\ ~src.is_none
                /\ Len(src.items) <= 3
                /\ Len(src.items) = Min(3, n)
                /\ \A i \in 1..Len(src.items) :
                       LET c == given[i].content
                           e == src.items[i].excerpt
                       IN  /\ Len(e) <= 100
                           /\ Len(e) = Min(100, ContentLength(c))
                           /\ \A j \in 1..Len(e) : e[j] = <<c, j>>
                           /\ src.items[i].asset_id =
                                  IF given[i].asset_id = NULL THEN "unknown"
                                  ELSE given[i].asset_id
                           /\ \A k \in (Len(src.items) + 1)..n :
                                  given[i].similarity >= given[k].similarity

\* A generation over four chunks has produced its sources: three entries,
\* one of a chunk without asset, one of a chunk longer than 100 characters.
C11_Witness ==
    /\ Len(g_chunks.items) = 4
    /\ \E src \in ProducedSources :
          /\ Len(src.items) = 3
          /\ \E i \in 1..3 : src.items[i].asset_id = "unknown"
          /\ \E i \in 1..3 : /\ ContentLength(g_chunks.items[i].content) > 100
                              /\ Len(src.items[i].excerpt) = 100

\* The contents of the token events among `events`, in order.
TokenContents(events) ==
    LET toks == SelectSeq(events, LAMBDA e : e.type = "token")
    IN  [i \in 1..Len(toks) |-> toks[i].content]

\* The fragments the upstream stream has produced, in arrival order.
Fragments == SelectSeq(g_upstream, LAMBDA d : d \notin {"", EndOfStream})

UpstreamExhausted ==
    Len(g_upstream) >= 1 /\ g_upstream[Len(g_upstream)] = EndOfStream

\* C12: a stream_generate run whose upstream completes yields zero or more
\* token events followed by exactly one done event: the done event is the
\* last event, there is one, and no token event follows it.
C12_TokensThenOneDone ==
    /\ \A i \in 1..Len(g_events) : g_events[i].type \in {"token", "done"}
    /\ \A i \in DoneEvents : i = Len(g_events)
    /\ UpstreamExhausted =>
          /\ Cardinality(DoneEvents) = 1
          /\ g_events[Len(g_events)].type = "done"
          /\ \A i \in 1..(Len(g_events) - 1) : g_events[i].type = "token"

\* A stream_generate that yielded two tokens and then its done event, and
\* was run to its end by the view.
C12_Witness ==
    /\ v_mode = "stream"
    /\ gpc = "returned"
    /\ UpstreamExhausted
    /\ Len(g_events) = 3
    /\ g_events[1].type = "token"
    /\ g_events[2].type = "token"
    /\ g_events[3].type = "done"

\* C13: tokens are emitted as they arrive, in arrival order, unbuffered: the
\* token events are the upstream fragments in order, each one is handed on
\* before the next is requested, and the done event comes only after the
\* upstream stream is exhausted.
C13_TokensInArrivalOrder ==
    /\ TokenContents(g_events) = Fragments
    /\ DoneEvents # {} => UpstreamExhausted
    /\ gpc = "yielded_token" =>
          /\ g_events[Len(g_events)].type = "token"
          /\ g_events[Len(g_events)].content = g_upstream[Len(g_upstream)]
          /\ TokenContents(sse) =
                 SubSeq(Fragments, 1, Len(Fragments) - 1)
    /\ (v_mode = "stream" /\ gpc # "yielded_token") =>
          TokenContents(sse) = Fragments

\* Two different fragments have arrived and were sent on in that order
\* before the done event.
C13_Witness ==
    /\ v_mode = "stream"
    /\ gpc = "yielded_done"
    /\ g_upstream = <<"y", "x", EndOfStream>>
    /\ TokenContents(sse) = <<"y", "x">>

\* C14: the decision logic is the same in batch and streaming mode: for the
\* question and chunks a run was given, what generate produced (used_context,
\* sources, system prompt, user message) is what stream_generate's logic
\* produces for them, and what stream_generate produced is what generate's
\* logic produces for them.
C14_SameDecisionInBothModes ==
    /\ gpc # "idle" =>
          /\ g_system_prompt = GetRagSystemPrompt
          /\ g_user_message = BuildUserMessage(g_question, g_chunks)
          /\ g_user_message = StreamBuildUserMessage(g_question, g_chunks)
    /\ (v_mode = "batch" /\ gpc = "returned") =>
          /\ g_result.used_context = StreamUseContext(g_chunks)
          /\ g_result.sources =
                 StreamExtractSources(StreamUseContext(g_chunks), g_chunks)
    /\ \A i \in DoneEvents :
          /\ g_events[i].used_context = UseContext(g_chunks)
          /\ g_events[i].sources =
                 ExtractSources(UseContext(g_chunks), g_chunks)

\* A streaming generation over a retrieval that found nothing has yielded
\* its done event; the same input reaches generate in batch mode.
C14_Witness ==
    /\ v_mode = "stream"
    /\ DoneEvents # {}
    /\ ~g_chunks.is_none
    /\ g_chunks.items = <<>>
    /\ g_user_message.context = NO_CONTEXT_MARKER

\* The rows of the requesting tenant that a retrieval for the request's
\* message would return.
RetrievableRows ==
    {r \in store : WhereClause(r, GenerateEmbedding(v_message), v_user)}

\* C15: the generation prompt holds retrieved document text iff use_context
\* is true; otherwise it carries the no-relevant-context marker and no chunk
\* content.  So for a query classified GENERAL the prompt sent to the model
\* is given by the question alone, whatever the tenant's store holds.
C15_AntiPoisoning ==
    gpc # "idle" =>
        /\ g_use_context = ChunksGiven(g_chunks)
        /\ g_use_context =>
              /\ g_user_message.context = "documents"
              /\ Len(g_user_message.blocks) = Len(g_chunks.items)
              /\ \A i \in 1..Len(g_chunks.items) :
                     g_user_message.blocks[i].content
                         = ContentText(g_chunks.items[i].content)
        /\ ~g_use_context =>
              /\ g_user_message.context = NO_CONTEXT_MARKER
              /\ g_user_message.blocks = <<>>
        /\ v_query_type = "GENERAL" =>
              /\ g_system_prompt = "RAG_SYSTEM_PROMPT"
              /\ g_user_message = [context |-> NO_CONTEXT_MARKER,
                                   blocks |-> <<>>,
                                   question |-> v_message]

\* A GENERAL query is being answered for a tenant whose store holds rows a
\* retrieval for that query would have returned.
C15_Witness ==
    /\ v_query_type = "GENERAL"
    /\ gpc \in {"returned", "yielded_done"}
    /\ RetrievableRows # {}
    /\ g_user_message.context = NO_CONTEXT_MARKER

(***************************************************************************)
(* Properties of the streaming view (checked under Spec).                  *)
(***************************************************************************)

\* The positions of the events of one type on the response stream.
SseEvents(type) == {i \in 1..Len(sse) : sse[i].type = type}

\* The response stream is open and event_stream has ended.
StreamClosed ==
    v_mode = "stream" /\ response.status = 200 /\ vpc = "done"

\* C16: in streaming mode a generation failure (the model unreachable, or
\* the upstream stream breaking after some tokens) ends the stream with an
\* error event: it is the last event, there is exactly one, no done event
\* is sent, and the stream never closes without a terminal event.
C16_StreamErrorEvent ==
    /\ (StreamClosed /\ gpc = "raised") =>
          /\ Len(sse) >= 1
          /\ sse[Len(sse)].type = "error"
          /\ Cardinality(SseEvents("error")) = 1
          /\ SseEvents("done") = {}
    /\ StreamClosed =>
          /\ Len(sse) >= 1
          /\ sse[Len(sse)].type \in {"done", "error"}
          /\ Cardinality(SseEvents("done") \cup SseEvents("error")) = 1

\* The upstream stream broke after a token had been sent on.
C16_Witness ==
    /\ StreamClosed
    /\ gpc = "raised"
    /\ Len(g_upstream) >= 1
    /\ SseEvents("token") # {}
    /\ sse[Len(sse)].type = "error"

\* The answer the upstream stream has delivered so far.
RECURSIVE Joined(_)
Joined(fragments) ==
    IF fragments = <<>> THEN ""
    ELSE fragments[1] \o Joined(Tail(fragments))

\* The assistant messages of the request's session.
AssistantMessages ==
    {i \in 1..Len(messages) : messages[i].role = "assistant"}

\* C17: if the caller aborts mid-stream, no further token is emitted after
\* the abort and no assistant message holding the partial answer is saved:
\* a message saved at all holds the complete answer of an exhausted stream.
C17_AbortStopsStream ==
    /\ [](vpc = "aborted" =>
            /\ ~UpstreamExhausted => AssistantMessages = {}
            /\ \A i \in AssistantMessages :
                   messages[i].content = Joined(Fragments))
    /\ [][vpc = "aborted" =>
            (sse' = sse /\ g_events' = g_events /\ messages' = messages)]_vars

\* The client went away after the first token was sent and before the
\* upstream stream had ended.
C17_Witness ==
    /\ vpc = "aborted"
    /\ SseEvents("token") # {}
    /\ full_response # ""
    /\ ~UpstreamExhausted
    /\ AssistantMessages = {}

\* C18: the upstream stream handle opened by stream_complete is released on
\* every exit path of a streaming generation: once the request is over
\* (completed, failed or abandoned by the consumer), a handle that was
\* opened has been closed.
C18_HandleReleased ==
    (vpc \in {"done", "aborted"} /\ g_handle # "none") => g_handle = "closed"

(***************************************************************************)
(* Retrieval failures within a chat request (checked under Spec).          *)
(***************************************************************************)

TraceEvents(name) == {i \in 1..Len(trace) : trace[i].ev = name}

\* C19: a retrieval failure (the embedding service or the search backend
\* raising) reaches the caller as an error: retrieve returns an empty list
\* only when no row of the tenant passes the threshold, never for a failure,
\* and a chat request whose retrieval failed starts no generation, saves no
\* answer and ends with an error.
C19_RetrievalFailureSurfaced ==
    /\ rpc = "returned" =>
          /\ r_embedding = GenerateEmbedding(r_query)
          /\ (r_chunks = <<>>) =
                 ({r \in store : WhereClause(r, r_embedding, r_user)} = {})
    /\ rpc = "raised" =>
          /\ r_chunks = <<>>
          /\ gpc = "idle"
          /\ TraceEvents("generate_start") = {}
          /\ TraceEvents("retrieve_return") = {}
          /\ AssistantMessages = {}
          /\ vpc = "done" =>
                /\ TraceEvents("retrieve_raise") # {}
                /\ IF v_mode = "batch"
                   THEN response.status = 500
                   ELSE /\ sse = <<[type |-> "error",
                                    message |-> "RetrievalError"]>>

\* A request whose retrieval failed although the tenant held rows that pass
\* the threshold has ended with its error.
C19_Witness ==
    /\ vpc = "done"
    /\ rpc = "raised"
    /\ RetrievableRows # {}
    /\ response.status = 500

(***************************************************************************)
(* Properties of image ingestion (checked under SpecImage).                *)
(***************************************************************************)

\* The signals of the OCR result that are strictly below their thresholds.
WeakSignals ==
    {name \in {"text_coverage", "box_density", "confidence"} :
        CASE name = "text_coverage" ->
                 ocr_result.text_coverage
                     < settings.OCR_TEXT_COVERAGE_THRESHOLD
          [] name = "box_density" ->
                 ocr_result.box_density < settings.OCR_BOX_DENSITY_THRESHOLD
          [] name = "confidence" ->
                 ocr_result.confidence < settings.OCR_CONFIDENCE_THRESHOLD}

\* C20: needs_vision is true iff at least one of the three signals is
\* strictly below its threshold, it is false when all three are at or above
\* their thresholds, and process_image calls the vision model exactly when
\* needs_vision is true (once, and not at all otherwise).
C20_VisionEscalation ==
    /\ ocr_result.ran =>
          /\ ocr_result.needs_vision = (WeakSignals # {})
          /\ (/\ ocr_result.text_coverage
                    >= settings.OCR_TEXT_COVERAGE_THRESHOLD
              /\ ocr_result.box_density >= settings.OCR_BOX_DENSITY_THRESHOLD
              /\ ocr_result.confidence >= settings.OCR_CONFIDENCE_THRESHOLD)
                => ~ocr_result.needs_vision
    /\ ~ocr_result.ran => vision_calls = <<>>
    /\ Len(vision_calls) <= 1
    /\ vision_calls # <<>> => ocr_result.needs_vision
    /\ ipc = "done" =>
          Len(vision_calls) = IF ocr_result.needs_vision THEN 1 ELSE 0

\* An image whose confidence alone is below its threshold, the other two
\* signals exactly at theirs, went to the vision model.
C20_Witness ==
    /\ ipc = "done"
    /\ ocr_result.ran
    /\ WeakSignals = {"confidence"}
    /\ ocr_result.text_coverage = settings.OCR_TEXT_COVERAGE_THRESHOLD
    /\ ocr_result.box_density = settings.OCR_BOX_DENSITY_THRESHOLD
    /\ Len(vision_calls) = 1

\* C21 as stated: the returned text is vision_description + "\n\n" +
\* ocr_text when needs_vision is true and the description is non-empty, the
\* OCR text alone when the description is empty, and the OCR text unchanged
\* when needs_vision is false, for every OCR text, an empty one included.
C21_Original ==
    ipc = "done" =>
        final_text =
            IF ocr_result.needs_vision /\ vision_description # <<>>
            THEN vision_description \o <<"n", "n">> \o ocr_result.text
            ELSE ocr_result.text

\* C21 amended: as stated when the OCR text is non-empty; when the OCR text
\* is empty and there is a description, the description alone is returned,
\* without the separator.
C21_MergedText ==
    ipc = "done" =>
        final_text =
            IF ocr_result.needs_vision /\ vision_description # <<>>
            THEN IF ocr_result.text # <<>>
                 THEN vision_description \o <<"n", "n">> \o ocr_result.text
                 ELSE vision_description
            ELSE ocr_result.text

\* An image with OCR text went to the vision model and came back with a
\* description: the returned text starts with the description.
C21_Witness ==
    /\ ipc = "done"
    /\ ocr_result.needs_vision
    /\ vision_description = <<"v", "n", "v">>
    /\ ocr_result.text = <<"o", " ", "o">>
    /\ final_text = <<"v", "n", "v", "n", "n", "o", " ", "o">>

\* The chunk rows that reference the upload request's asset.
UploadedRows == {r \in store : r.asset_id = NewAssetId}

C23_AssetDeletionCleansUp ==
    [][\A a \in assets \ assets' :
          /\ a.public_id \notin cloud'
          /\ \A r \in store' : r.asset_id # a.id]_vars

\* C24: after a successful upload of n chunks (and while its asset is not
\* deleted) exactly n DocumentChunk rows of the upload are stored, the i-th
\* holding the i-th chunk text and the i-th embedding, which is the vector
\* of that text, and chunks_created is the number of rows stored.
C24_OrderPreserved ==
    (/\ upc = "done"
     /\ u_response.status = 201
     /\ \E a \in assets : a.id = NewAssetId) =>
        /\ Cardinality(UploadedRows) = Len(u_chunks)
        /\ u_response.chunks_created = Cardinality(UploadedRows)
        /\ Len(u_embeddings) = Len(u_chunks)
        /\ \A i \in 1..Len(u_chunks) :
              \E r \in UploadedRows :
                  /\ r.id = NewAssetId \o "-" \o ToString(i)
                  /\ r.content = u_chunks[i]
                  /\ r.embedding = u_embeddings[i]
                  /\ r.embedding = GenerateEmbedding(u_chunks[i])

\* A two-chunk upload with different texts was stored.
C24_Witness ==
    /\ upc = "done"
    /\ u_response.status = 201
    /\ u_chunks = <<"d2", "d1">>
    /\ Cardinality(UploadedRows) = 2

\* C27: once the upload has answered with an error after its Cloudinary
\* upload succeeded, neither the Asset row, nor a DocumentChunk row, nor the
\* Cloudinary file of that request remains.
C27_UploadAllOrNothing ==
    (/\ upc = "done"
     /\ u_response.status \in {400, 500}
     /\ u_public_id # NULL) =>
        /\ \A a \in assets : a.id # NewAssetId
        /\ UploadedRows = {}
        /\ NewPublicId \notin cloud

\* C25: every search returns rows that are in the chunk table when it
\* runs, and a search that runs after an asset delete request has answered
\* 200 returns no chunk of that asset, whatever the upload, delete and chat
\* requests did before.
C25_NoStaleChunks ==
    [][(rpc = "search" /\ rpc' = "returned") =>
          /\ \A i \in 1..Len(rows') : \E r \in store : r.id = rows'[i].id
          /\ (dpc = "done" /\ d_response.status = 200) =>
                \A i \in 1..Len(r_chunks') :
                    r_chunks'[i].asset_id # d_asset.id]_vars

\* User A's asset, whose chunk matches the question, was deleted and A's
\* retrieval returned without it.
C25_Witness ==
    /\ dpc = "done"
    /\ d_response.status = 200
    /\ d_asset.id = AssetOf("A", "d1")
    /\ rpc = "returned"
    /\ r_user = "A"
    /\ \A i \in 1..Len(r_chunks) : r_chunks[i].asset_id # AssetOf("A", "d1")

\* The user who uploaded the asset of that id: the upload request's user
\* for its asset, the owner the earlier uploads gave it otherwise.
UploaderOf(asset_id) ==
    IF asset_id = NewAssetId
    THEN u_user
    ELSE CHOOSE u \in Users : \E c \in Contents : AssetOf(u, c) = asset_id

\* The sources of the chat response, once a 200 response carries some.
ResponseSources ==
    IF vpc = "done" /\ response.status = 200
    THEN IF response.body.sources.is_none
         THEN <<>>
         ELSE response.body.sources.items
    ELSE <<>>

SessionNotOwned ==
    /\ v_message # ""
    /\ v_session_id # NULL
    /\ ~\E x \in sessions : x.id = v_session_id /\ x.user = v_user

\* The delete request names an asset that is not the requester's.
AssetNotOwned == ~\E a \in assets : a.id = d_asset_id /\ a.user = d_user

C30_StreamPersistence ==
    v_mode = "stream" =>
        /\ \A i \in SseEvents("token") :
              \E j \in SseEvents("session") : j < i
        /\ SseEvents("done") # {} => AssistantMessages # {}
        /\ Cardinality(AssistantMessages) <= 1
        /\ \A k \in AssistantMessages :
              /\ messages[k].session = v_session
              /\ messages[k].content = Joined(TokenContents(sse))
              /\ DoneEvents # {}
              /\ \A d \in DoneEvents :
                    messages[k].used_context = g_events[d].used_context
        /\ (\/ TraceEvents("classify_raise") # {}
            \/ TraceEvents("retrieve_raise") # {}
            \/ TraceEvents("generate_raise") # {}
            \/ gpc = "raised") => AssistantMessages = {}

\* A stream of two tokens answered from context ended with its done event
\* and the message "yx" stored.
C30_Witness ==
    /\ v_mode = "stream"
    /\ vpc = "done"
    /\ SseEvents("session") = {1}
    /\ SseEvents("token") = {2, 3}
    /\ SseEvents("done") = {4}
    /\ AssistantMessages = {2}
    /\ messages[2].content = "yx"
    /\ messages[2].used_context

====
